---- MODULE Spec2Model ----
(***************************************************************************)
(* A model of the aquarium monitoring service: the telemetry collector     *)
(* (monitoring_service/telemetry.py), the sensor factory                   *)
(* (monitoring_service/sensors/factory.py) and the output manager          *)
(* (monitoring_service/outputs/output_manager.py).                         *)
(*                                                                         *)
(* Python values are modelled as follows.                                  *)
(*   - None-able attributes are options: <<>> is None, <<v>> is v.         *)
(*   - A reading is a record [t, n, d]: t = "num" is the rational n/d      *)
(*     (Python int or float), t = "bool" is a bool (n = 1 for True, 0 for  *)
(*     False), t = "str" is a non-numeric value.                           *)
(*   - A dict is a function; a missing key is a key outside its DOMAIN.    *)
(*     The mapping a driver returns is a sequence of <<key, value>> pairs, *)
(*     in the dict's iteration order.                                      *)
(***************************************************************************)
EXTENDS Integers, Sequences, FiniteSets, TLC

VARIABLES
    bundles,         \* TelemetryCollector._bundles: the list of SensorBundle
    drivers,         \* the id/path/pin attributes of each bundle's driver
    feed,            \* what each driver's hardware can return from read()
    last_read,       \* TelemetryCollector._last_read: identity -> timestamp
    ema,             \* TelemetryCollector._ema: <<identity, key>> -> number
    clock,           \* time.time()
    cycles,          \* number of as_dict calls made so far
    now,             \* the timestamp the last as_dict call sampled
    telemetry_data,  \* the mapping the last as_dict call returned
    raised,          \* TRUE iff the last as_dict call raised
    trace,           \* per bundle, what the last as_dict call did with it
    lastOk,          \* per bundle, the timestamp of its last successful read
    emaLog,          \* per <<identity, key>>, the smoothing steps made so far
    registry,        \* SensorFactory._registry: type name -> driver class
    entry,           \* the configuration entry given to the last build call
    result,          \* what the last build call returned or raised
    constructed,     \* number of driver constructor calls made by the last call
    call,            \* the arguments of the last register call
    config,          \* the argument of the last build_all call
    built,           \* what the last build_all call returned or raised
    outputs,         \* OutputManager._outputs: the list of outputs
    before,          \* OutputManager._outputs when the last render call began
    calls,           \* the output.render calls the last render call made, in order
    disabled,        \* the outputs whose render has raised in some render call
    escaped,         \* TRUE iff the last render call raised to its caller
    renders          \* number of render calls made so far

collectorVars == <<bundles, drivers, feed, last_read, ema, clock, cycles, now,
                   telemetry_data, raised, trace, lastOk, emaLog>>
factoryVars == <<registry, entry, result, constructed, call, config, built>>
outputVars == <<outputs, before, calls, disabled, escaped, renders>>
vars == <<collectorVars, factoryVars, outputVars>>

-----------------------------------------------------------------------------
(* Bounds of the model. *)

MaxCycles == 3       \* as_dict calls per behaviour
MaxClock == 4        \* the clock stops advancing here
MaxRenders == 3      \* OutputManager.render calls per behaviour

-----------------------------------------------------------------------------
(* Python values. *)

None == <<>>
Some(v) == <<v>>
IsNone(o) == o = <<>>
Get(o) == o[1]

EmptyDict == [k \in {} |-> 0]

RECURSIVE Gcd(_, _)
Gcd(a, b) == IF b = 0 THEN a ELSE Gcd(b, a % b)

Abs(a) == IF a < 0 THEN -a ELSE a

\* The rational n/d in lowest terms with a positive denominator.
Num(n, d) ==
    LET s == IF d < 0 THEN -1 ELSE 1
        g == Gcd(Abs(n), Abs(d))
    IN  [t |-> "num", n |-> (s * n) \div g, d |-> (s * d) \div g]

IntV(n) == [t |-> "num", n |-> n, d |-> 1]
BoolV(b) == [t |-> "bool", n |-> IF b THEN 1 ELSE 0, d |-> 1]
\* A non-numeric value (a str); n tells one such value from another.
StrV(n) == [t |-> "str", n |-> n, d |-> 1]

\* isinstance(value, (int, float)): bool is a subclass of int.
IsNumber(v) == v.t \in {"num", "bool"}

\* Arithmetic on numbers; a bool operand counts as 1 or 0, the result is a number.
Mul(a, b) == Num(a.n * b.n, a.d * b.d)
Add(a, b) == Num(a.n * b.d + b.n * a.d, a.d * b.d)
Sub(a, b) == Num(a.n * b.d - b.n * a.d, a.d * b.d)
Leq(a, b) == a.n * b.d <= b.n * a.d

\* f with the entries of g written over it (dict assignment in a loop).
Override(f, g) ==
    [k \in (DOMAIN f) \cup (DOMAIN g) |-> IF k \in DOMAIN g THEN g[k] ELSE f[k]]

Put(f, k, v) == [x \in (DOMAIN f) \cup {k} |-> IF x = k THEN v ELSE f[x]]

Digits == <<"0", "1", "2", "3", "4", "5", "6", "7", "8", "9">>

\* str(n) of a natural number, as an f-string formats it.
RECURSIVE Decimal(_)
Decimal(n) ==
    IF n < 10 THEN Digits[n + 1] ELSE Decimal(n \div 10) \o Digits[(n % 10) + 1]

\* Python truthiness of an optional string / optional int attribute.
TruthyStr(o) == ~IsNone(o) /\ Get(o) # ""
TruthyInt(o) == ~IsNone(o) /\ Get(o) # 0

-----------------------------------------------------------------------------
(* TelemetryCollector: the pure steps of the pipeline. *)

\* _bundle_id: the driver's class name and its id, else path, else pin, else
\* hex(id(bundle)), which is unique to the bundle object (here: its position).
BundleId(i, drv) ==
    LET identifier ==
            IF TruthyStr(drv.id) THEN Get(drv.id)
            ELSE IF TruthyStr(drv.path) THEN Get(drv.path)
            ELSE IF TruthyInt(drv.pin) THEN Decimal(Get(drv.pin))
            ELSE "0x" \o Decimal(i)
    IN  drv.cls \o ":" \o identifier

\* _is_due
IsDue(lr, bundle_id, t, interval) ==
    IF IsNone(interval) \/ Get(interval) = 0 \/ Get(interval) <= 0 THEN TRUE
    ELSE IF bundle_id \notin DOMAIN lr THEN TRUE
    ELSE (t - lr[bundle_id]) >= Get(interval)

\* _map_keys: raw is the sequence of <<raw_key, value>> of raw.items().
RECURSIVE MapKeysFrom(_, _, _, _)
MapKeysFrom(key_map, raw, j, mapped_keys) ==
    IF j > Len(raw) THEN mapped_keys
    ELSE LET raw_key == raw[j][1]
             value == raw[j][2]
         IN  IF raw_key \in DOMAIN key_map
             THEN MapKeysFrom(key_map, raw, j + 1,
                              Put(mapped_keys, key_map[raw_key], value))
             ELSE MapKeysFrom(key_map, raw, j + 1, mapped_keys)

\* Mutant of MapKeys: a raw key absent from the key map is kept under its
\* raw name.
MapKeysKeepsUnmapped(bundle, raw) ==
    MapKeysFrom(bundle.keys, raw, 1,
                [r \in {raw[j][1] : j \in 1..Len(raw)} \ DOMAIN bundle.keys |->
                    raw[CHOOSE j \in 1..Len(raw) : raw[j][1] = r][2]])

MapKeys(bundle, raw) == MapKeysFrom(bundle.keys, raw, 1, EmptyDict)

\* calibration[key].get("slope", 1.0), .get("offset", 0.0)
SlopeOf(cal) == IF IsNone(cal.slope) THEN IntV(1) ELSE Get(cal.slope)
OffsetOf(cal) == IF IsNone(cal.offset) THEN IntV(0) ELSE Get(cal.offset)

\* _apply_calibration
ApplyCalibration(bundle, mapped) ==
    [k \in DOMAIN mapped |->
        IF k \in DOMAIN bundle.calibration
        THEN IF IsNumber(mapped[k])
             THEN Add(Mul(mapped[k], SlopeOf(bundle.calibration[k])),
                      OffsetOf(bundle.calibration[k]))
             ELSE mapped[k]
        ELSE mapped[k]]

\* The pass-through test of _apply_smoothing.
Smooths(bundle, key, value) ==
    /\ IsNumber(value)
    /\ key \in DOMAIN bundle.smoothing
    /\ bundle.smoothing[key] >= 2

\* Mutant of EmaStep: alpha = 2 / window.
EmaStepAlphaOverWindow(window, value, prev) ==
    LET alpha == Num(2, window)
    IN  Add(Mul(alpha, value), Mul(Sub(IntV(1), alpha), prev))

\* alpha = 2 / (window + 1); smoothed = alpha * value + (1 - alpha) * prev
EmaStep(window, value, prev) ==
    LET alpha == Num(2, window + 1)
    IN  Add(Mul(alpha, value), Mul(Sub(IntV(1), alpha), prev))

\* The value _apply_smoothing stores and outputs for one key.
SmoothedValue(bundle, e, uid, key, value) ==
    IF <<uid, key>> \notin DOMAIN e THEN value
    ELSE EmaStep(bundle.smoothing[key], value, e[<<uid, key>>])

\* _apply_smoothing: the returned dict.  The keys of one dict are distinct, so
\* the iterations of the loop touch distinct accumulators and do not interact.
ApplySmoothing(bundle, e, uid, calibrated) ==
    [k \in DOMAIN calibrated |->
        IF Smooths(bundle, k, calibrated[k])
        THEN SmoothedValue(bundle, e, uid, k, calibrated[k])
        ELSE calibrated[k]]

\* _apply_smoothing: self._ema after the call.
EmaAfter(bundle, e, uid, calibrated) ==
    LET touched == {k \in DOMAIN calibrated : Smooths(bundle, k, calibrated[k])}
    IN  [p \in (DOMAIN e) \cup {<<uid, k>> : k \in touched} |->
            IF p[1] = uid /\ p[2] \in touched
            THEN SmoothedValue(bundle, e, uid, p[2], calibrated[p[2]])
            ELSE e[p]]

\* Mutant of InRange: the bounds are exclusive.
InRangeExclusive(rng, value) ==
    /\ IsNone(rng.min) \/ ~Leq(value, Get(rng.min))
    /\ IsNone(rng.max) \/ ~Leq(Get(rng.max), value)

\* min_value <= raw_value <= max_value, with the defaults -inf and +inf.
InRange(rng, value) ==
    /\ IsNone(rng.min) \/ Leq(Get(rng.min), value)
    /\ IsNone(rng.max) \/ Leq(value, Get(rng.max))

\* _apply_ranges
ApplyRanges(bundle, smoothed) ==
    LET kept == {k \in DOMAIN smoothed :
                    \/ k \notin DOMAIN bundle.ranges
                    \/ ~IsNumber(smoothed[k])
                    \/ InRange(bundle.ranges[k], smoothed[k])}
    IN  [k \in kept |-> smoothed[k]]

-----------------------------------------------------------------------------
(* The drivers' read(). *)

\* DS18B20Sensor._get_device_file and read: a driver built without id and
\* without a device file discovers the file on its first read and sets
\* self.path; the read then succeeds or raises.  Every other driver returns
\* one of the mappings its hardware can produce, or raises.
ReadOutcomes(drv, fd) ==
    LET results(d) ==
            {[ok |-> TRUE, raw |-> r, drv |-> d] : r \in fd.raws}
            \cup (IF fd.fails THEN {[ok |-> FALSE, raw |-> <<>>, drv |-> d]} ELSE {})
    IN  IF drv.cls = "DS18B20Sensor" /\ IsNone(drv.path)
        THEN (IF IsNone(fd.device) \/ fd.fails
              THEN {[ok |-> FALSE, raw |-> <<>>, drv |-> drv]} ELSE {})
             \cup (IF IsNone(fd.device) THEN {}
                   ELSE results([drv EXCEPT !.path = fd.device]))
        ELSE results(drv)

-----------------------------------------------------------------------------
(* TelemetryCollector.as_dict. *)

\* What as_dict did with one bundle: seq is the position of the bundle in the
\* order in which the loop reached the bundles (0: not reached).
NoTrace ==
    [status |-> "none", seq |-> 0, bid |-> "", uid |-> "", raw |-> <<>>,
     mapped |-> EmptyDict, calibrated |-> EmptyDict, smoothed |-> EmptyDict,
     ranged |-> EmptyDict]

\* The number of bundles the loop has reached so far.
Reached(st) == Cardinality({j \in DOMAIN st.trace : st.trace[j].status # "none"})

\* Mutant of NotDue: a skipped bundle has its interval cleared.
NotDueClearsInterval(st, i, bundle_id) ==
    [st EXCEPT !.bundles[i].interval = None,
               !.trace[i] = [NoTrace EXCEPT !.status = "notdue", !.bid = bundle_id,
                                            !.seq = Reached(st) + 1]]

\* `if not read_now: continue`
NotDue(st, i, bundle_id) ==
    [st EXCEPT !.trace[i] = [NoTrace EXCEPT !.status = "notdue", !.bid = bundle_id,
                                            !.seq = Reached(st) + 1]]

\* Mutant of ReadFailed: the exception of read() is not caught.
ReadFailedPropagates(st, i, bundle_id, o) ==
    [st EXCEPT !.drivers[i] = o.drv,
               !.raised = TRUE,
               !.trace[i] = [NoTrace EXCEPT !.status = "failed", !.bid = bundle_id,
                                            !.seq = Reached(st) + 1]]

\* Mutant of ReadFailed: the last-read time is written for a failed read too.
ReadFailedStamps(st, i, bundle_id, o) ==
    [st EXCEPT !.drivers[i] = o.drv,
               !.last_read = Put(st.last_read, bundle_id, clock),
               !.trace[i] = [NoTrace EXCEPT !.status = "failed", !.bid = bundle_id,
                                            !.seq = Reached(st) + 1]]

\* `except Exception as e: logger.warning(...); continue`
ReadFailed(st, i, bundle_id, o) ==
    [st EXCEPT !.drivers[i] = o.drv,
               !.trace[i] = [NoTrace EXCEPT !.status = "failed", !.bid = bundle_id,
                                            !.seq = Reached(st) + 1]]

\* The smoothing steps _apply_smoothing made, appended to the log.
LogAfter(bundle, lg, e, uid, calibrated) ==
    LET touched == {k \in DOMAIN calibrated : Smooths(bundle, k, calibrated[k])}
    IN  [p \in (DOMAIN lg) \cup {<<uid, k>> : k \in touched} |->
            IF p[1] = uid /\ p[2] \in touched
            THEN Append(IF p \in DOMAIN lg THEN lg[p] ELSE <<>>,
                        [w |-> bundle.smoothing[p[2]], v |-> calibrated[p[2]],
                         out |-> SmoothedValue(bundle, e, uid, p[2], calibrated[p[2]])])
            ELSE lg[p]]

\* Mutant of Pipeline: the range filter runs on the mapped values, before
\* calibration and smoothing.
PipelineRangesFirst(bundle, e, uid, raw) ==
    LET mapped == MapKeys(bundle, raw)
        ranged == ApplyRanges(bundle, mapped)
        calibrated == ApplyCalibration(bundle, ranged)
        smoothed == ApplySmoothing(bundle, e, uid, calibrated)
    IN  [mapped |-> mapped, calibrated |-> calibrated, smoothed |-> smoothed,
         ranged |-> smoothed, ema |-> EmaAfter(bundle, e, uid, calibrated)]

\* Mutant of Pipeline: the range filter runs before the smoothing, so that a
\* value outside its range never reaches the accumulator.
PipelineSmoothsInRange(bundle, e, uid, raw) ==
    LET mapped == MapKeys(bundle, raw)
        calibrated == ApplyCalibration(bundle, mapped)
        ranged == ApplyRanges(bundle, calibrated)
        smoothed == ApplySmoothing(bundle, e, uid, ranged)
    IN  [mapped |-> mapped, calibrated |-> calibrated, smoothed |-> smoothed,
         ranged |-> smoothed, ema |-> EmaAfter(bundle, e, uid, ranged)]

\* The four stages as_dict runs on what read() returned, in its order:
\* _map_keys, _apply_calibration, _apply_smoothing, _apply_ranges.
Pipeline(bundle, e, uid, raw) ==
    LET mapped == MapKeys(bundle, raw)
        calibrated == ApplyCalibration(bundle, mapped)
        smoothed == ApplySmoothing(bundle, e, uid, calibrated)
        ranged == ApplyRanges(bundle, smoothed)
    IN  [mapped |-> mapped, calibrated |-> calibrated, smoothed |-> smoothed,
         ranged |-> ranged, ema |-> EmaAfter(bundle, e, uid, calibrated)]

\* Mutant of Merge: a key already in telemetry_data keeps its value.
MergeKeepFirst(telemetry, ranged) == Override(ranged, telemetry)

\* `for key, value in ranged.items(): telemetry_data[key] = value`
Merge(telemetry, ranged) == Override(telemetry, ranged)

\* `self._last_read[bundle_id] = now`
Stamp(lr, bundle_id, t) == Put(lr, bundle_id, t)

\* The body of the loop after a read that returned: the pipeline, the
\* last-read update and the merge into telemetry_data.
ReadOk(st, i, bundle_id, t, o) ==
    LET bundle == st.bundles[i]
        uid == BundleId(i, o.drv)
        out == Pipeline(bundle, st.ema, uid, o.raw)
    IN  [st EXCEPT
            !.drivers[i] = o.drv,
            !.ema = out.ema,
            !.emaLog = LogAfter(bundle, st.emaLog, st.ema, uid, out.calibrated),
            !.last_read = Stamp(st.last_read, bundle_id, t),
            !.lastOk[i] = Some(t),
            !.telemetry = Merge(st.telemetry, out.ranged),
            !.trace[i] = [status |-> "ok", seq |-> Reached(st) + 1,
                          bid |-> bundle_id, uid |-> uid,
                          raw |-> o.raw, mapped |-> out.mapped,
                          calibrated |-> out.calibrated,
                          smoothed |-> out.smoothed, ranged |-> out.ranged]]

\* Mutant of StepBundle: a bundle that is not due raises out of the loop.
StepBundleSkipRaises(st, i, t) ==
    LET bundle_id == BundleId(i, st.drivers[i])
    IN  IF ~IsDue(st.last_read, bundle_id, t, st.bundles[i].interval)
        THEN {[NotDue(st, i, bundle_id) EXCEPT !.raised = TRUE]}
        ELSE {IF o.ok THEN ReadOk(st, i, bundle_id, t, o)
                      ELSE ReadFailed(st, i, bundle_id, o) :
                 o \in ReadOutcomes(st.drivers[i], feed[i])}

\* One iteration of `for bundle in self._bundles`: the states it can end in.
StepBundle(st, i, t) ==
    LET bundle_id == BundleId(i, st.drivers[i])
    IN  IF ~IsDue(st.last_read, bundle_id, t, st.bundles[i].interval)
        THEN {NotDue(st, i, bundle_id)}
        ELSE {IF o.ok THEN ReadOk(st, i, bundle_id, t, o)
                      ELSE ReadFailed(st, i, bundle_id, o) :
                 o \in ReadOutcomes(st.drivers[i], feed[i])}

\* The loop from bundle i on; an exception that escapes an iteration ends it.
RECURSIVE RunFrom(_, _, _)
RunFrom(st, i, t) ==
    IF i > Len(st.bundles) \/ st.raised THEN {st}
    ELSE UNION {RunFrom(s, i + 1, t) : s \in StepBundle(st, i, t)}

\* The states a call of as_dict made now can end in.
CycleOutcomes ==
    RunFrom([bundles |-> bundles, last_read |-> last_read, ema |-> ema,
             drivers |-> drivers, telemetry |-> EmptyDict,
             trace |-> [i \in 1..Len(bundles) |-> NoTrace],
             lastOk |-> lastOk, emaLog |-> emaLog, raised |-> FALSE], 1, clock)

AsDict ==
    /\ cycles < MaxCycles
    /\ \E fin \in CycleOutcomes :
          /\ bundles' = fin.bundles
          /\ last_read' = fin.last_read
          /\ ema' = fin.ema
          /\ drivers' = fin.drivers
          /\ telemetry_data' = fin.telemetry
          /\ trace' = fin.trace
          /\ lastOk' = fin.lastOk
          /\ emaLog' = fin.emaLog
          /\ raised' = fin.raised
    /\ now' = clock
    /\ cycles' = cycles + 1
    /\ UNCHANGED <<feed, clock, factoryVars, outputVars>>

\* time.time() advances between (and never during) the calls.
Tick ==
    /\ clock < MaxClock
    /\ clock' = clock + 1
    /\ UNCHANGED <<bundles, drivers, feed, last_read, ema, cycles, now,
                   telemetry_data, raised, trace, lastOk, emaLog, factoryVars,
                   outputVars>>

-----------------------------------------------------------------------------
(* SensorFactory.  A str the factory strips, lower-cases or parses is a     *)
(* sequence of one-character strings.  A configuration value is a record   *)
(* [t, n, s]: t is its Python type ("none", "str", "int", "float", "bool", *)
(* "list"), n its number, s its characters.                                *)

NoneF == [t |-> "none", n |-> 0, s |-> <<>>]
StrF(s) == [t |-> "str", n |-> 0, s |-> s]
IntF(n) == [t |-> "int", n |-> n, s |-> <<>>]
FloatF(n) == [t |-> "float", n |-> n, s |-> <<>>]
BoolF(b) == [t |-> "bool", n |-> IF b THEN 1 ELSE 0, s |-> <<>>]
EmptyListF == [t |-> "list", n |-> 0, s |-> <<>>]

Whitespace == {" ", "\t", "\n"}

RECURSIVE LStrip(_)
LStrip(s) == IF s # <<>> /\ Head(s) \in Whitespace THEN LStrip(Tail(s)) ELSE s

RECURSIVE RStrip(_)
RStrip(s) ==
    IF s # <<>> /\ s[Len(s)] \in Whitespace THEN RStrip(SubSeq(s, 1, Len(s) - 1)) ELSE s

\* str.strip()
Strip(s) == RStrip(LStrip(s))

UpperCase == <<"A", "B", "C", "D", "E", "F", "G", "H", "I", "J", "K", "L", "M",
               "N", "O", "P", "Q", "R", "S", "T", "U", "V", "W", "X", "Y", "Z">>
LowerCase == <<"a", "b", "c", "d", "e", "f", "g", "h", "i", "j", "k", "l", "m",
               "n", "o", "p", "q", "r", "s", "t", "u", "v", "w", "x", "y", "z">>

LowerChar(c) ==
    IF \E j \in 1..Len(UpperCase) : UpperCase[j] = c
    THEN LowerCase[CHOOSE j \in 1..Len(UpperCase) : UpperCase[j] = c]
    ELSE c

\* str.lower()
Lower(s) == [j \in 1..Len(s) |-> LowerChar(s[j])]

DigitValue(c) == (CHOOSE j \in 1..Len(Digits) : Digits[j] = c) - 1
IsDigit(c) == \E j \in 1..Len(Digits) : Digits[j] = c

RECURSIVE DigitsValue(_)
DigitsValue(s) ==
    IF s = <<>> THEN 0
    ELSE 10 * DigitsValue(SubSeq(s, 1, Len(s) - 1)) + DigitValue(s[Len(s)])

\* int(value), the coercer the drivers declare: <<n>>, or <<>> where int raises
\* (ValueError for a str that is no decimal literal, TypeError for None or a list).
IntCast(v) ==
    CASE v.t \in {"int", "float", "bool"} -> Some(IntF(v.n))
      [] v.t = "str" ->
            LET body == Strip(v.s)
                signed == body # <<>> /\ Head(body) \in {"+", "-"}
                digits == IF signed THEN Tail(body) ELSE body
            IN  IF digits # <<>> /\ \A j \in 1..Len(digits) : IsDigit(digits[j])
                THEN Some(IntF(IF signed /\ Head(body) = "-"
                               THEN -DigitsValue(digits) ELSE DigitsValue(digits)))
                ELSE None
      [] OTHER -> None

\* isinstance(x, (int, float)) and isinstance(x, int)
IsNumeric(v) == v.t \in {"int", "float", "bool"}
IsInt(v) == v.t \in {"int", "bool"}

\* `x in (None, "", [])`
IsEmptyValue(v) == v.t = "none" \/ (v.t = "str" /\ v.s = <<>>) \/ v.t = "list"

\* What the factory reads off a driver class: REQUIRED_KWARGS (None when the
\* class has none), REQUIRED_ANY_OF, ACCEPTED_KWARGS, the fields with an int
\* COERCER, and whether the class is a subclass of BaseSensor.  AllOfProbe and
\* AnyOfProbe are drivers a caller registers whose required fields name a
\* field (serial) their ACCEPTED_KWARGS lack; Logger is no BaseSensor.
DriverClasses ==
    [DS18B20Sensor |->
        [required |-> None, any_of |-> Some(<<{"id"}, {"path"}>>),
         accepted |-> {"id", "path"}, coercers |-> {}, sensor |-> TRUE],
     DHT22Sensor |->
        [required |-> Some(<<"id", "pin">>), any_of |-> None,
         accepted |-> {"id", "pin"}, coercers |-> {"pin"}, sensor |-> TRUE],
     I2CWaterLevelSensor |->
        [required |-> Some(<<"id", "bus", "low_address">>), any_of |-> None,
         accepted |-> {"id", "bus", "low_address", "high_address",
                       "wet_threshold", "dry_threshold"},
         coercers |-> {"bus", "low_address", "high_address", "wet_threshold",
                       "dry_threshold"}, sensor |-> TRUE],
     WaterFlowSensor |->
        [required |-> Some(<<"id", "pin">>), any_of |-> None,
         accepted |-> {"id", "pin", "sample_window", "sliding_window_s",
                       "glitch_us", "calibration_constant"},
         coercers |-> {"pin"}, sensor |-> TRUE],
     AllOfProbe |->
        [required |-> Some(<<"id", "serial">>), any_of |-> None,
         accepted |-> {"id"}, coercers |-> {}, sensor |-> TRUE],
     AnyOfProbe |->
        [required |-> None, any_of |-> Some(<<{"id"}, {"serial"}>>),
         accepted |-> {"id"}, coercers |-> {}, sensor |-> TRUE],
     Logger |->
        [required |-> None, any_of |-> None, accepted |-> {}, coercers |-> {},
         sensor |-> FALSE]]

\* Whether driver_class(**kwargs) raises.  hw tells whether the hardware the
\* constructor opens (the I2C bus, pigpiod) is there.
ConstructorRaises(cls, kwargs, hw) ==
    LET has(f) == f \in DOMAIN kwargs
    IN  CASE cls = "DHT22Sensor" -> FALSE
          [] cls = "DS18B20Sensor" ->
                \* path.rstrip("/") of a truthy path that is no str
                has("path") /\ kwargs["path"].t \in {"int", "float", "bool"}
                            /\ kwargs["path"].n # 0
          [] cls = "I2CWaterLevelSensor" ->
                \/ ~(kwargs["bus"].n \in 0..3)
                \/ ~(kwargs["low_address"].n \in 1..127)
                \/ ~hw
          [] cls = "WaterFlowSensor" -> ~hw
          [] OTHER -> FALSE

NoResult ==
    [kind |-> "none", detail |-> "", unknown_type |-> <<>>, known_types |-> {},
     sensor_id |-> NoneF, constructed |-> 0, driver |-> "", kwargs |-> EmptyDict,
     keys |-> <<>>, calibration |-> <<>>, ranges |-> <<>>, smoothing |-> <<>>,
     interval |-> NoneF]

\* raise InvalidSensorConfigError(...): detail names the check that failed.
Invalid(detail) == [NoResult EXCEPT !.kind = "InvalidSensorConfigError", !.detail = detail]

\* An exception that is no FactoryError.
Crash(kind, detail) == [NoResult EXCEPT !.kind = kind, !.detail = detail]

\* sensor_config.get(name): a missing key reads as None.
Field(e, name) == IF name \in DOMAIN e.fields THEN e.fields[name] ELSE NoneF

\* `sensor_config.get("calibration") or {}` and the like: the items of the
\* dict, or <<>> for a falsy value.
Items(meta) == IF meta.t = "dict" THEN meta.items ELSE <<>>

\* .items() of a truthy value that is no dict raises AttributeError.
NotIterable(meta) == meta.t \in {"str", "list"} /\ meta.items # <<>>

\* The loop over calibration_map.items(): "" if every entry passes, else the
\* check the first failing entry fails.
RECURSIVE CheckCalibration(_, _, _)
CheckCalibration(items, j, canonical) ==
    IF j > Len(items) THEN ""
    ELSE LET key == items[j][1]
             cal == items[j][2]
         IN  IF key.t # "str" \/ Strip(key.s) = <<>> THEN "calibration key"
             ELSE IF key.s \notin canonical THEN "calibration unknown key"
             ELSE IF cal.t # "dict" THEN "calibration not a dict"
             ELSE IF IsNone(cal.offset) \/ IsNone(cal.slope) THEN "calibration incomplete"
             ELSE IF ~IsNumeric(Get(cal.offset)) \/ ~IsNumeric(Get(cal.slope))
                  THEN "calibration not numeric"
             ELSE CheckCalibration(items, j + 1, canonical)

\* Mutant of CheckRanges: `low > high` in place of `low >= high`.
RECURSIVE CheckRangesMinEqMax(_, _, _)
CheckRangesMinEqMax(items, j, canonical) ==
    IF j > Len(items) THEN ""
    ELSE LET key == items[j][1]
             limits == items[j][2]
         IN  IF key.t # "str" \/ Strip(key.s) = <<>> THEN "ranges key"
             ELSE IF key.s \notin canonical THEN "ranges unknown key"
             ELSE IF limits.t # "dict" THEN "ranges not a dict"
             ELSE IF IsNone(limits.min) \/ IsNone(limits.max) THEN "ranges incomplete"
             ELSE IF ~IsNumeric(Get(limits.min)) \/ ~IsNumeric(Get(limits.max))
                  THEN "ranges not numeric"
             ELSE IF Get(limits.min).n > Get(limits.max).n THEN "ranges min >= max"
             ELSE CheckRangesMinEqMax(items, j + 1, canonical)

\* The loop over ranges_map.items().
RECURSIVE CheckRanges(_, _, _)
CheckRanges(items, j, canonical) ==
    IF j > Len(items) THEN ""
    ELSE LET key == items[j][1]
             limits == items[j][2]
         IN  IF key.t # "str" \/ Strip(key.s) = <<>> THEN "ranges key"
             ELSE IF key.s \notin canonical THEN "ranges unknown key"
             ELSE IF limits.t # "dict" THEN "ranges not a dict"
             ELSE IF IsNone(limits.min) \/ IsNone(limits.max) THEN "ranges incomplete"
             ELSE IF ~IsNumeric(Get(limits.min)) \/ ~IsNumeric(Get(limits.max))
                  THEN "ranges not numeric"
             ELSE IF Get(limits.min).n >= Get(limits.max).n THEN "ranges min >= max"
             ELSE CheckRanges(items, j + 1, canonical)

\* Mutant of CheckSmoothing: the key is not looked up in the canonical set.
RECURSIVE CheckSmoothingAnyKey(_, _, _)
CheckSmoothingAnyKey(items, j, canonical) ==
    IF j > Len(items) THEN ""
    ELSE LET key == items[j][1]
             value == items[j][2]
         IN  IF key.t # "str" \/ Strip(key.s) = <<>> THEN "smoothing key"
             ELSE IF ~IsInt(value) THEN "smoothing not an int"
             ELSE IF value.n < 1 THEN "smoothing < 1"
             ELSE CheckSmoothingAnyKey(items, j + 1, canonical)

\* The loop over smoothing_map.items().
RECURSIVE CheckSmoothing(_, _, _)
CheckSmoothing(items, j, canonical) ==
    IF j > Len(items) THEN ""
    ELSE LET key == items[j][1]
             value == items[j][2]
         IN  IF key.t # "str" \/ Strip(key.s) = <<>> THEN "smoothing key"
             ELSE IF key.s \notin canonical THEN "smoothing unknown key"
             ELSE IF ~IsInt(value) THEN "smoothing not an int"
             ELSE IF value.n < 1 THEN "smoothing < 1"
             ELSE CheckSmoothing(items, j + 1, canonical)

\* `interval is not None and (not isinstance(interval, int) or interval < 1)`
BadInterval(interval) == interval.t # "none" /\ (~IsInt(interval) \/ interval.n < 1)

\* sensor_config.items(): the driver fields, type and interval, and the
\* metadata maps the entry has.  Then the kwargs the driver accepts, then the
\* coercers applied: the coerced kwargs, or the fields whose cast raises.
ConfigItems(e) ==
    LET metadata == {m \in {"keys", "calibration", "ranges", "smoothing"} :
                        e[m].t # "none"}
    IN  [k \in (DOMAIN e.fields) \cup metadata |->
            IF k \in metadata THEN e[k] ELSE e.fields[k]]

\* Mutant of Filtered: the whole entry is passed to the constructor.
FilteredWholeConfig(e, desc) == ConfigItems(e)

Filtered(e, desc) ==
    [k \in (DOMAIN ConfigItems(e)) \cap desc.accepted |-> ConfigItems(e)[k]]

CoercionFails(filtered, desc) ==
    {f \in desc.coercers \cap DOMAIN filtered : IsNone(IntCast(filtered[f]))}

Coerced(filtered, desc) ==
    [k \in DOMAIN filtered |->
        IF k \in desc.coercers THEN Get(IntCast(filtered[k])) ELSE filtered[k]]

\* Mutant of Missing: a field counts as given when present, whatever its value.
MissingAbsentOnly(kwargs, required) ==
    {required[j] : j \in {x \in 1..Len(required) : required[x] \notin DOMAIN kwargs}}

\* The REQUIRED_KWARGS that are missing from, or empty in, the kwargs.
Missing(kwargs, required) ==
    {required[j] : j \in {x \in 1..Len(required) :
        required[x] \notin DOMAIN kwargs \/ IsEmptyValue(kwargs[required[x]])}}

\* `all(key in filtered_kwargs and filtered_kwargs[key] not in (None, "", []) ...)`
\* for at least one group of REQUIRED_ANY_OF.
HasValidGroup(kwargs, groups) ==
    \E j \in 1..Len(groups) :
        \A key \in groups[j] : key \in DOMAIN kwargs /\ ~IsEmptyValue(kwargs[key])

\* build from the registry lookup on: the entry has passed the validation of
\* its type, keys, calibration, ranges, smoothing and interval.
BuildDriver(reg, e, sensor_type, hw) ==
    IF sensor_type \notin DOMAIN reg
    THEN [NoResult EXCEPT !.kind = "UnknownSensorTypeError",
                          !.unknown_type = sensor_type,
                          !.known_types = DOMAIN reg,
                          !.sensor_id = Field(e, "id")]
    ELSE LET cls == reg[sensor_type]
             desc == DriverClasses[cls]
             filtered == Filtered(e, desc)
         IN  IF CoercionFails(filtered, desc) # {} THEN Invalid("coercion")
             ELSE LET kwargs == Coerced(filtered, desc)
                  IN  IF ~IsNone(desc.required) /\ Get(desc.required) # <<>>
                      THEN IF {Get(desc.required)[j] : j \in 1..Len(Get(desc.required))}
                                  \ desc.accepted # {}
                           THEN Invalid("driver misconfigured")
                           ELSE IF Missing(kwargs, Get(desc.required)) # {}
                           THEN Invalid("required missing")
                           ELSE IF ConstructorRaises(cls, kwargs, hw)
                           THEN [Invalid("constructor") EXCEPT !.constructed = 1,
                                    !.sensor_id = Field(e, "id"),
                                    !.driver = cls, !.kwargs = kwargs]
                           ELSE [NoResult EXCEPT !.kind = "bundle", !.constructed = 1,
                                    !.driver = cls, !.kwargs = kwargs]
                      ELSE IF IsNone(desc.required) /\ ~IsNone(desc.any_of)
                              /\ Get(desc.any_of) # <<>>
                              /\ ~HasValidGroup(kwargs, Get(desc.any_of))
                      THEN Invalid("required any-of missing")
                      ELSE IF ConstructorRaises(cls, kwargs, hw)
                      THEN [Invalid("constructor") EXCEPT !.constructed = 1,
                               !.sensor_id = Field(e, "id"),
                               !.driver = cls, !.kwargs = kwargs]
                      ELSE [NoResult EXCEPT !.kind = "bundle", !.constructed = 1,
                               !.driver = cls, !.kwargs = kwargs]

\* SensorFactory.build: what it returns or raises for the entry e.
Build(reg, e, hw) ==
    LET type == Field(e, "type")
    IN  IF type.t # "str" \/ Strip(type.s) = <<>> THEN Invalid("type")
        ELSE IF e.keys.t # "dict" \/ e.keys.items = <<>> THEN Invalid("keys")
        ELSE LET sensor_type == Lower(Strip(type.s))
                 canonical == {e.keys.items[j][2] : j \in 1..Len(e.keys.items)}
                 calibration == CheckCalibration(Items(e.calibration), 1, canonical)
                 ranges == CheckRanges(Items(e.ranges), 1, canonical)
                 smoothing == CheckSmoothing(Items(e.smoothing), 1, canonical)
             IN  IF NotIterable(e.calibration) THEN Crash("AttributeError", "calibration")
                 ELSE IF calibration # "" THEN Invalid(calibration)
                 ELSE IF NotIterable(e.ranges) THEN Crash("AttributeError", "ranges")
                 ELSE IF ranges # "" THEN Invalid(ranges)
                 ELSE IF NotIterable(e.smoothing) THEN Crash("AttributeError", "smoothing")
                 ELSE IF smoothing # "" THEN Invalid(smoothing)
                 ELSE IF BadInterval(Field(e, "interval")) THEN Invalid("interval")
                 ELSE LET r == BuildDriver(reg, e, sensor_type, hw)
                      IN  IF r.kind = "bundle"
                          THEN [r EXCEPT !.keys = e.keys.items,
                                         !.calibration = Items(e.calibration),
                                         !.ranges = Items(e.ranges),
                                         !.smoothing = Items(e.smoothing),
                                         !.interval = Field(e, "interval")]
                          ELSE r

\* What build_all has done so far: the bundles appended, the number of build
\* calls and of constructor calls made, and what each build call ended in.
NoBuilt ==
    [kind |-> "none", detail |-> "", bundles |-> <<>>, builds |-> 0,
     constructed |-> 0, outcomes |-> <<>>]

\* The loop of build_all from item j on.  An item that is no mapping makes
\* build raise AttributeError at sensor_config.get("type"); control enters
\* `except Exception`, whose sensor_cfg.get("type") raises AttributeError
\* again, and that one leaves build_all.  For a mapping, both handlers log
\* and continue.
RECURSIVE BuildAllFrom(_, _, _, _, _)
BuildAllFrom(reg, items, j, hw, acc) ==
    IF j > Len(items) THEN [acc EXCEPT !.kind = "returned"]
    ELSE IF ~items[j].mapping
    THEN [acc EXCEPT !.kind = "AttributeError", !.detail = "sensor_cfg.get",
                     !.builds = @ + 1, !.outcomes = Append(@, "AttributeError")]
    ELSE LET r == Build(reg, items[j].entry, hw)
         IN  BuildAllFrom(reg, items, j + 1, hw,
                 [acc EXCEPT !.builds = @ + 1,
                             !.constructed = @ + r.constructed,
                             !.outcomes = Append(@, r.kind),
                             !.bundles = IF r.kind = "bundle" THEN Append(@, r) ELSE @])

\* Mutant of BuildAllResult: the value of "sensors" is not required to be a
\* list.
BuildAllResultAnySensors(reg, cfg, hw) ==
    IF (cfg.t = "dict" /\ cfg.has_sensors) \/ cfg.t = "list"
    THEN BuildAllFrom(reg, cfg.items, 1, hw, NoBuilt)
    ELSE [NoBuilt EXCEPT !.kind = "InvalidSensorConfigError",
                         !.detail = "build_all expects a list or a dict with 'sensors'"]

\* SensorFactory.build_all: what it returns or raises for the input cfg.
BuildAllResult(reg, cfg, hw) ==
    IF cfg.t = "dict" /\ cfg.has_sensors
    THEN IF cfg.sensors_t # "list"
         THEN [NoBuilt EXCEPT !.kind = "InvalidSensorConfigError",
                              !.detail = "'sensors' must be a list"]
         ELSE BuildAllFrom(reg, cfg.items, 1, hw, NoBuilt)
    ELSE IF cfg.t = "list" THEN BuildAllFrom(reg, cfg.items, 1, hw, NoBuilt)
    ELSE [NoBuilt EXCEPT !.kind = "InvalidSensorConfigError",
                         !.detail = "build_all expects a list or a dict with 'sensors'"]

\* The type names of the model, as characters.
T_ds18b20 == <<"d", "s", "1", "8", "b", "2", "0">>
T_dht22 == <<"d", "h", "t", "2", "2">>
T_water_level == <<"w", "a", "t", "e", "r", "_", "l", "e", "v", "e", "l">>
T_DHT22_padded == <<" ", "D", "H", "T", "2", "2", " ">>
T_bogus == <<"b", "o", "g", "u", "s">>
T_blank == <<" ", " ">>
T_Water_Flow_padded == <<" ", "W", "a", "t", "e", "r", "_", "F", "l", "o", "w", " ">>

\* SensorFactory.__init__ with registry=None: the built-in drivers.
DefaultRegistry ==
    (T_ds18b20 :> "DS18B20Sensor") @@ (T_dht22 :> "DHT22Sensor")
        @@ (T_water_level :> "I2CWaterLevelSensor")

\* Mutant of Registered: the name is trimmed but not lower-cased.
RegisteredCaseKept(reg, sensor_type, driver_class) ==
    IF sensor_type.t # "str" THEN reg
    ELSE IF Strip(sensor_type.s) = <<>> THEN reg
    ELSE IF ~DriverClasses[driver_class].sensor THEN reg
    ELSE Put(reg, Strip(sensor_type.s), driver_class)

\* SensorFactory.register: the registry after the call.
Registered(reg, sensor_type, driver_class) ==
    IF sensor_type.t # "str" THEN reg
    ELSE IF Lower(Strip(sensor_type.s)) = <<>> THEN reg
    ELSE IF ~DriverClasses[driver_class].sensor THEN reg
    ELSE Put(reg, Lower(Strip(sensor_type.s)), driver_class)

\* SensorFactory.register: what the call raises, if anything.
RegisterResult(sensor_type, driver_class) ==
    IF sensor_type.t # "str" THEN Invalid("sensor_type must be a string")
    ELSE IF Lower(Strip(sensor_type.s)) = <<>> THEN Invalid("sensor_type blank")
    ELSE IF ~DriverClasses[driver_class].sensor THEN Invalid("driver_class")
    ELSE [NoResult EXCEPT !.kind = "registered"]

-----------------------------------------------------------------------------
(* The configuration entries and the register calls of the model. *)

Dict(items) == [t |-> "dict", items |-> items]
Absent == [t |-> "none", items |-> <<>>]

CalEntry(offset, slope) == [t |-> "dict", offset |-> offset, slope |-> slope]
Limits(lo, hi) == [t |-> "dict", min |-> lo, max |-> hi]

Entry(fields, keys, calibration, ranges, smoothing) ==
    [fields |-> fields, keys |-> keys, calibration |-> calibration,
     ranges |-> ranges, smoothing |-> smoothing]

TypeChoices ==
    {EmptyDict} \cup {[type |-> StrF(s)] : s \in {T_dht22, T_DHT22_padded, T_ds18b20,
                                                  T_water_level, T_bogus, T_blank,
                                                  T_Water_Flow_padded}}

KwargChoices ==
    {EmptyDict,
     [id |-> StrF(<<"a">>), pin |-> IntF(4)],
     [id |-> StrF(<<"a">>), pin |-> StrF(<<"1", "7">>), kind |-> StrF(<<"T">>)],
     [id |-> StrF(<<"a">>), pin |-> StrF(<<"x">>)],
     [path |-> StrF(<<"/", "w", "1">>)],
     [id |-> StrF(<<"w">>), bus |-> IntF(1), low_address |-> StrF(<<"1", "1", "9">>)],
     [id |-> StrF(<<>>), pin |-> IntF(4)],
     [id |-> StrF(<<>>), pin |-> StrF(<<"x">>)],
     [id |-> NoneF, path |-> EmptyListF],
     [id |-> StrF(<<"a">>), serial |-> StrF(<<"s">>)]}

GoodKeys == Dict(<< <<<<"t">>, <<"k">>>>, <<<<"h">>, <<"x">>>> >>)
GoodCalibration == Dict(<< <<StrF(<<"k">>), CalEntry(Some(IntF(0)), Some(IntF(1)))>> >>)
GoodRanges == Dict(<< <<StrF(<<"x">>), Limits(Some(IntF(0)), Some(IntF(50)))>> >>)
GoodSmoothing == Dict(<< <<StrF(<<"k">>), IntF(3)>> >>)

\* A calibration whose second key, ranges whose key (a raw key), and a
\* smoothing whose key (in the wrong case) are no canonical keys.
StrayCalibration ==
    Dict(<< <<StrF(<<"k">>), CalEntry(Some(IntF(0)), Some(IntF(1)))>>,
            <<StrF(<<"z">>), CalEntry(Some(IntF(0)), Some(IntF(1)))>> >>)
StrayRanges == Dict(<< <<StrF(<<"t">>), Limits(Some(IntF(0)), Some(IntF(50)))>> >>)
StraySmoothing == Dict(<< <<StrF(<<"K">>), IntF(3)>> >>)

\* Every type with every set of driver fields, the metadata being valid.
DriverSweep ==
    {Entry(ty @@ kw @@ [interval |-> IntF(2)], GoodKeys, GoodCalibration,
           GoodRanges, GoodSmoothing) : ty \in TypeChoices, kw \in KwargChoices}

\* A registered and an unregistered type with valid driver fields, the
\* metadata being valid or not in every combination.
MetadataSweep ==
    {Entry(ty @@ iv @@ [id |-> StrF(<<"a">>), pin |-> IntF(4)], ks, c, r, sm) :
        ty \in {[type |-> StrF(T_dht22)], [type |-> StrF(T_bogus)]},
        iv \in {EmptyDict, [interval |-> IntF(0)]},
        ks \in {GoodKeys, Absent},
        c \in {Absent, StrayCalibration},
        r \in {GoodRanges, StrayRanges,
               Dict(<< <<StrF(<<"x">>), Limits(Some(IntF(5)), Some(IntF(5)))>> >>)},
        sm \in {Absent, StraySmoothing, Dict(<< <<StrF(<<"k">>), IntF(0)>> >>)}}

\* Other malformed metadata: an empty keys map, a calibration entry without
\* slope, a blank key, a float window, and a list where a dict is expected.
MalformedSweep ==
    {Entry([type |-> StrF(T_dht22), id |-> StrF(<<"a">>), pin |-> IntF(4)],
           ks, c, Absent, sm) :
        ks \in {GoodKeys, Dict(<<>>)},
        c \in {GoodCalibration,
               Dict(<< <<StrF(<<"k">>), CalEntry(Some(IntF(0)), None)>> >>),
               Dict(<< <<StrF(<<" ">>), CalEntry(Some(IntF(0)), Some(IntF(1)))>> >>),
               [t |-> "list", items |-> << <<StrF(<<"k">>), IntF(3)>> >>]},
        sm \in {GoodSmoothing, StraySmoothing,
                Dict(<< <<StrF(<<"k">>), FloatF(3)>> >>),
                [t |-> "list", items |-> << <<StrF(<<"k">>), IntF(3)>> >>]}}

\* Metadata at the edge of what build accepts: a window of 1, a range whose
\* min is one below its max, float limits, and bools where an int is asked
\* for (JSON true is the Python int subclass bool).
EdgeSweep ==
    {Entry([type |-> StrF(T_dht22), id |-> StrF(<<"a">>), pin |-> IntF(4)] @@ iv,
           GoodKeys, GoodCalibration, r, sm) :
        iv \in {EmptyDict, [interval |-> IntF(1)], [interval |-> BoolF(TRUE)],
                [interval |-> BoolF(FALSE)], [interval |-> FloatF(2)],
                [interval |-> StrF(<<"5">>)]},
        r \in {Absent,
               Dict(<< <<StrF(<<"x">>), Limits(Some(IntF(4)), Some(IntF(5)))>> >>),
               Dict(<< <<StrF(<<"x">>), Limits(Some(FloatF(0)), Some(StrF(<<"9">>)))>> >>)},
        sm \in {Dict(<< <<StrF(<<"k">>), IntF(1)>> >>),
                Dict(<< <<StrF(<<"k">>), BoolF(TRUE)>> >>)}}

Entries == DriverSweep \cup MetadataSweep \cup MalformedSweep \cup EdgeSweep

\* Whether the hardware is there matters to the drivers that open it when
\* constructed (the I2C bus, pigpiod).
HardwareChoices(e) ==
    IF "type" \in DOMAIN e.fields
       /\ e.fields["type"] \in {StrF(T_water_level), StrF(T_Water_Flow_padded)}
    THEN BOOLEAN ELSE {TRUE}

RegisterTypes == {StrF(T_Water_Flow_padded), StrF(T_DHT22_padded), StrF(T_blank), IntF(5)}
RegisterClasses == {"WaterFlowSensor", "AllOfProbe", "AnyOfProbe", "Logger"}

\* The register calls of the model: a new name, its override by other
\* drivers, and calls register rejects.
RegisterCalls ==
    {<<StrF(T_Water_Flow_padded), "WaterFlowSensor">>,
     <<StrF(T_Water_Flow_padded), "AnyOfProbe">>,
     <<StrF(T_Water_Flow_padded), "AllOfProbe">>,
     <<StrF(T_DHT22_padded), "Logger">>,
     <<StrF(T_blank), "WaterFlowSensor">>,
     <<IntF(5), "WaterFlowSensor">>}

\* The items of a build_all input: a configuration entry, or a value that is
\* no mapping.
MappingItem(e) == [mapping |-> TRUE, entry |-> e, value |-> NoneF]
OtherItem(v) ==
    [mapping |-> FALSE, entry |-> Entry(EmptyDict, Absent, Absent, Absent, Absent),
     value |-> v]

GoodDht22 ==
    Entry([type |-> StrF(T_dht22), id |-> StrF(<<"a">>), pin |-> IntF(4)],
          GoodKeys, GoodCalibration, GoodRanges, GoodSmoothing)
GoodDs18b20 ==
    Entry([type |-> StrF(T_ds18b20), path |-> StrF(<<"/", "w", "1">>)],
          GoodKeys, Absent, Absent, Absent)
GoodWaterLevel ==
    Entry([type |-> StrF(T_water_level), id |-> StrF(<<"w">>), bus |-> IntF(1),
           low_address |-> IntF(119)], GoodKeys, Absent, Absent, Absent)
UnknownType ==
    Entry([type |-> StrF(T_bogus), id |-> StrF(<<"b">>)], GoodKeys, Absent, Absent,
          Absent)
NoKeys ==
    Entry([type |-> StrF(T_dht22), id |-> StrF(<<"a">>), pin |-> IntF(4)],
          Absent, Absent, Absent, Absent)
ListCalibration ==
    Entry([type |-> StrF(T_dht22), id |-> StrF(<<"a">>), pin |-> IntF(4)],
          GoodKeys, [t |-> "list", items |-> << <<StrF(<<"k">>), IntF(3)>> >>],
          Absent, Absent)

ItemPool ==
    {MappingItem(e) : e \in {GoodDht22, GoodDs18b20, GoodWaterLevel, UnknownType,
                             NoKeys, ListCalibration}}
    \cup {OtherItem(v) : v \in {NoneF, StrF(<<"x">>), IntF(5)}}

\* The lists of items: every list of at most two items, and lists of three
\* with one failing item before, between or after two well-formed ones.
ItemLists ==
    {<<>>} \cup {<<a>> : a \in ItemPool} \cup {<<a, b>> : a \in ItemPool, b \in ItemPool}
    \cup {<<a, b, c>> : a \in {MappingItem(GoodDht22)},
                        b \in {MappingItem(UnknownType), MappingItem(ListCalibration),
                               OtherItem(NoneF)},
                        c \in {MappingItem(GoodDs18b20)}}
    \cup {<<MappingItem(UnknownType), MappingItem(GoodDht22), MappingItem(GoodDs18b20)>>,
          <<MappingItem(GoodDht22), MappingItem(GoodDs18b20), MappingItem(NoKeys)>>,
          <<MappingItem(GoodWaterLevel), MappingItem(GoodDht22),
            MappingItem(GoodWaterLevel)>>}

\* A build_all input: t is its Python type; for a dict, has_sensors tells
\* whether it has the key "sensors" and sensors_t the type of that value;
\* items are the items of the list (the input itself or its "sensors").
Config(t, has_sensors, sensors_t, items) ==
    [t |-> t, has_sensors |-> has_sensors, sensors_t |-> sensors_t, items |-> items]

NoConfig == Config("", FALSE, "", <<>>)

Configs ==
    {Config("list", FALSE, "", l) : l \in ItemLists}
    \cup {Config("dict", TRUE, "list", l) : l \in {x \in ItemLists : Len(x) # 2}}
    \cup {Config("dict", FALSE, "", l) :
            l \in {<<>>, <<MappingItem(GoodDht22)>>}}
    \cup {Config("dict", TRUE, t, l) :
            t \in {"none", "str", "dict", "tuple"},
            l \in {<<>>, <<MappingItem(GoodDht22)>>}}
    \cup {Config(t, FALSE, "", l) :
            t \in {"none", "str", "int", "tuple"},
            l \in {<<>>, <<MappingItem(GoodDht22)>>}}

-----------------------------------------------------------------------------
(* The factory's operations and specification. *)

\* No register call has been made.
NoCall == [sensor_type |-> NoneF, driver_class |-> ""]

\* SensorFactory.build(sensor_config)
BuildEntry ==
    /\ \E e \in Entries :
       \E hw \in HardwareChoices(e) :
          /\ entry' = e
          /\ result' = Build(registry, e, hw)
    /\ constructed' = result'.constructed
    /\ call' = NoCall
    /\ config' = NoConfig
    /\ built' = NoBuilt
    /\ UNCHANGED <<registry, collectorVars, outputVars>>

\* SensorFactory.build_all(config)
BuildAll ==
    /\ \E cfg \in Configs :
       \E hw \in UNION ({{TRUE}} \cup {HardwareChoices(cfg.items[j].entry) :
                                          j \in 1..Len(cfg.items)}) :
          /\ config' = cfg
          /\ built' = BuildAllResult(registry, cfg, hw)
    /\ constructed' = built'.constructed
    /\ entry' = EmptyDict
    /\ result' = NoResult
    /\ call' = NoCall
    /\ UNCHANGED <<registry, collectorVars, outputVars>>

\* SensorFactory.register(sensor_type, driver_class)
Register ==
    /\ \E c \in RegisterCalls :
          /\ call' = [sensor_type |-> c[1], driver_class |-> c[2]]
          /\ registry' = Registered(registry, c[1], c[2])
          /\ result' = RegisterResult(c[1], c[2])
    /\ entry' = EmptyDict
    /\ constructed' = 0
    /\ config' = NoConfig
    /\ built' = NoBuilt
    /\ UNCHANGED <<collectorVars, outputVars>>

-----------------------------------------------------------------------------
(* The collectors the model starts from: the bundle lists given to         *)
(* TelemetryCollector(bundles=...), and what each driver's hardware can    *)
(* return.                                                                 *)

Bundle(keys, calibration, ranges, smoothing, interval) ==
    [keys |-> keys, calibration |-> calibration, ranges |-> ranges,
     smoothing |-> smoothing, interval |-> interval]

Driver(cls, id, path, pin) == [cls |-> cls, id |-> id, path |-> path, pin |-> pin]

Hardware(raws, fails, device) == [raws |-> raws, fails |-> fails, device |-> device]

Cal(slope, offset) == [slope |-> slope, offset |-> offset]
Range(lo, hi) == [min |-> Some(IntV(lo)), max |-> Some(IntV(hi))]

W1File == "/sys/bus/w1/devices/28-a/w1_slave"

\* A DHT22 smoothed with window 3 (it also returns an unmapped humidity), and
\* a water level sensor calibrated by value - 10, smoothed with window 2 and
\* limited to [0, 50].
SmoothingRig ==
    [bundles |-> <<
        Bundle([temperature |-> "k"], EmptyDict, EmptyDict, [k |-> 3], None),
        Bundle([water_level |-> "lvl"],
               [lvl |-> Cal(Some(IntV(1)), Some(IntV(-10)))],
               [lvl |-> Range(0, 50)], [lvl |-> 2], None) >>,
     drivers |-> <<
        Driver("DHT22Sensor", Some("a"), None, Some(4)),
        Driver("I2CWaterLevelSensor", Some("w"), None, None) >>,
     feed |-> <<
        Hardware({<< <<"temperature", IntV(v)>>, <<"humidity", IntV(55)>> >> :
                     v \in {10, 20, 30}}, TRUE, None),
        Hardware({<< <<"water_level", IntV(v)>> >> : v \in {30, 90}}, FALSE, None) >>]

\* Three bundles that all emit the canonical key x; the second has an
\* interval, the third a range [0, 25] and an interval of 0.
SharedKeyRig ==
    [bundles |-> <<
        Bundle([temperature |-> "x"], EmptyDict, EmptyDict, EmptyDict, None),
        Bundle([temperature |-> "x", humidity |-> "h"], EmptyDict, EmptyDict,
               EmptyDict, Some(2)),
        Bundle([temperature |-> "x"], EmptyDict, [x |-> Range(0, 25)],
               EmptyDict, Some(0)) >>,
     drivers |-> <<
        Driver("DS18B20Sensor", Some("28-a"), Some(W1File), None),
        Driver("DHT22Sensor", Some("b"), None, Some(4)),
        Driver("DHT22Sensor", Some("c"), None, Some(17)) >>,
     feed |-> <<
        Hardware({<< <<"temperature", IntV(10)>> >>}, TRUE, None),
        Hardware({<< <<"temperature", IntV(20)>>, <<"humidity", IntV(55)>> >>},
                 TRUE, None),
        Hardware({<< <<"temperature", IntV(v)>> >> : v \in {25, 30}}, TRUE, None) >>]

\* One bundle: k is calibrated by value - 50, limited to [-20, -5] and has a
\* smoothing window of 1; u has the same limits and no calibration; two raw
\* keys map to the same key p, which is calibrated by value / 2 with the
\* default offset.
CalibrationRig ==
    [bundles |-> <<
        Bundle([temperature |-> "k", humidity |-> "u", p1 |-> "p", p2 |-> "p"],
               [k |-> Cal(Some(IntV(1)), Some(IntV(-50))),
                p |-> Cal(Some(Num(1, 2)), None)],
               [k |-> Range(-20, -5), u |-> Range(-20, -5),
                p |-> [min |-> Some(IntV(0)), max |-> None]],
               [k |-> 1], None) >>,
     drivers |-> << Driver("DHT22Sensor", Some("a"), None, Some(4)) >>,
     feed |-> <<
        Hardware({<< <<"temperature", IntV(v)>>, <<"humidity", IntV(h)>>,
                     <<"p1", IntV(3)>>, <<"p2", IntV(h)>> >> :
                     v \in {40, 45, 30, -10, 46}, h \in {40, -10}}, FALSE, None) >>]

\* A driver without id, path or pin that returns booleans and strings: flag
\* has a calibration, mode a smoothing window, door a range.
BooleanRig ==
    [bundles |-> <<
        Bundle([s |-> "flag", m |-> "mode", r |-> "door"],
               [flag |-> Cal(Some(IntV(2)), Some(IntV(1)))],
               [door |-> Range(2, 5)],
               [mode |-> 2], None) >>,
     drivers |-> << Driver("SwitchSensor", None, None, None) >>,
     feed |-> <<
        Hardware({<< <<"s", v>>, <<"m", v>>, <<"r", v>> >> :
                     v \in {BoolV(TRUE), BoolV(FALSE), StrV(1), IntV(3)}},
                 FALSE, None) >>]

\* Two DHT22 configured with the same id, both with an interval, both
\* smoothing the same canonical key.
TwinRig ==
    [bundles |-> <<
        Bundle([temperature |-> "k"], EmptyDict, EmptyDict, [k |-> 3], Some(2)),
        Bundle([temperature |-> "k"], EmptyDict, EmptyDict, [k |-> 3], Some(2)) >>,
     drivers |-> <<
        Driver("DHT22Sensor", Some("a"), None, Some(4)),
        Driver("DHT22Sensor", Some("a"), None, Some(17)) >>,
     feed |-> <<
        Hardware({<< <<"temperature", IntV(10)>> >>}, TRUE, None),
        Hardware({<< <<"temperature", IntV(30)>> >>}, TRUE, None) >>]

\* Two DHT22 configured with the same id and no interval: the first smooths
\* the canonical key k over a window of 3, the second has a window of 1 for it.
MixedTwinRig ==
    [bundles |-> <<
        Bundle([temperature |-> "k"], EmptyDict, EmptyDict, [k |-> 3], None),
        Bundle([temperature |-> "k"], EmptyDict, EmptyDict, [k |-> 1], None) >>,
     drivers |-> <<
        Driver("DHT22Sensor", Some("a"), None, Some(4)),
        Driver("DHT22Sensor", Some("a"), None, Some(17)) >>,
     feed |-> <<
        Hardware({<< <<"temperature", IntV(10)>> >>}, FALSE, None),
        Hardware({<< <<"temperature", IntV(30)>> >>}, FALSE, None) >>]

\* A DS18B20 built from a base directory only (no id, no device file yet),
\* with an interval; its first read discovers the device file.
DiscoveryRig ==
    [bundles |-> <<
        Bundle([temperature |-> "k"], EmptyDict, EmptyDict, [k |-> 3], Some(2)) >>,
     drivers |-> << Driver("DS18B20Sensor", None, None, None) >>,
     feed |-> <<
        Hardware({<< <<"temperature", IntV(v)>> >> : v \in {10, 20}}, TRUE,
                 Some(W1File)) >>]

\* A DHT22 with an interval whose read returns an empty mapping, only an
\* unmapped key, only a value outside the range [0, 50] or a value inside it,
\* or raises.
DroppedRig ==
    [bundles |-> <<
        Bundle([temperature |-> "k"], EmptyDict, [k |-> Range(0, 50)], EmptyDict,
               Some(2)) >>,
     drivers |-> << Driver("DHT22Sensor", Some("d"), None, Some(4)) >>,
     feed |-> <<
        Hardware({<<>>, << <<"humidity", IntV(55)>> >>,
                  << <<"temperature", IntV(90)>> >>,
                  << <<"temperature", IntV(20)>> >>}, TRUE, None) >>]

Rigs == {SmoothingRig, SharedKeyRig, CalibrationRig, BooleanRig, TwinRig,
         MixedTwinRig, DiscoveryRig, DroppedRig}

-----------------------------------------------------------------------------
(* OutputManager.  An output is an object with a render method; the model   *)
(* names the objects.  A call of an output's render returns or raises.     *)

OutputNames == {"lcd", "log", "oled"}
Snapshots == {"s1", "s2"}

\* The lists OutputManager is constructed with: distinct outputs in any order.
OutputLists ==
    {<<>>} \cup {<<a>> : a \in OutputNames}
    \cup {l \in [1..2 -> OutputNames] : l[1] # l[2]}
    \cup {l \in [1..3 -> OutputNames] : Cardinality({l[j] : j \in 1..3}) = 3}

\* Mutant of Remove: the list is left as it is.
RemoveNothing(list, output) == list

\* `self._outputs.remove(output)`: the first occurrence goes; ValueError for
\* an output that is not in the list is passed over.
Remove(list, output) ==
    IF \E j \in 1..Len(list) : list[j] = output
    THEN LET j == CHOOSE x \in 1..Len(list) :
                     list[x] = output /\ \A y \in 1..(x - 1) : list[y] # output
         IN  SubSeq(list, 1, j - 1) \o SubSeq(list, j + 1, Len(list))
    ELSE list

\* The loop `for output in self._outputs` from index idx on (the list
\* iterator keeps an index into the list, which the loop body may shorten);
\* the outputs in raising raise when their render is called.
RECURSIVE RenderFrom(_, _, _, _)
RenderFrom(st, idx, snapshot, raising) ==
    IF idx > Len(st.outputs) THEN st
    ELSE LET output == st.outputs[idx]
         IN  IF output \in raising
             THEN RenderFrom([st EXCEPT
                     !.calls = Append(@, [output |-> output, snapshot |-> snapshot,
                                          raised |-> TRUE]),
                     !.outputs = Remove(@, output),
                     !.disabled = @ \cup {output}], idx + 1, snapshot, raising)
             ELSE RenderFrom([st EXCEPT
                     !.calls = Append(@, [output |-> output, snapshot |-> snapshot,
                                          raised |-> FALSE])], idx + 1, snapshot, raising)

\* OutputManager.render(snapshot)
Render ==
    /\ renders < MaxRenders
    /\ \E snapshot \in Snapshots : \E raising \in SUBSET OutputNames :
          LET fin == RenderFrom([outputs |-> outputs, calls |-> <<>>,
                                 disabled |-> disabled, escaped |-> FALSE],
                                1, snapshot, raising)
          IN  /\ outputs' = fin.outputs
              /\ calls' = fin.calls
              /\ disabled' = fin.disabled
              /\ escaped' = fin.escaped
    /\ before' = outputs
    /\ renders' = renders + 1
    /\ UNCHANGED <<collectorVars, factoryVars>>

\* No render call has been made.
OutputIdle ==
    /\ before = <<>>
    /\ calls = <<>>
    /\ disabled = {}
    /\ escaped = FALSE
    /\ renders = 0

-----------------------------------------------------------------------------
(* The collector's specification. *)

\* No factory call has been made.
FactoryIdle ==
    /\ registry = DefaultRegistry
    /\ entry = EmptyDict
    /\ result = NoResult
    /\ constructed = 0
    /\ call = NoCall
    /\ config = NoConfig
    /\ built = NoBuilt

\* TelemetryCollector.__init__
CollectorInitOf(rigs) ==
    /\ \E rig \in rigs :
          /\ bundles = rig.bundles
          /\ drivers = rig.drivers
          /\ feed = rig.feed
          /\ trace = [i \in 1..Len(rig.bundles) |-> NoTrace]
          /\ lastOk = [i \in 1..Len(rig.bundles) |-> None]
    /\ last_read = EmptyDict
    /\ ema = EmptyDict
    /\ emaLog = EmptyDict
    /\ clock = 0
    /\ cycles = 0
    /\ now = 0
    /\ telemetry_data = EmptyDict
    /\ raised = FALSE

Init == CollectorInitOf(Rigs) /\ FactoryIdle /\ OutputIdle /\ outputs = <<>>

Next == AsDict \/ Tick

\* The collector: any number of cycles, the clock advancing between them.
Spec == Init /\ [][Next]_vars

\* The factory: register, build and build_all calls in any order.
FactoryInit ==
    CollectorInitOf({DiscoveryRig}) /\ FactoryIdle /\ OutputIdle /\ outputs = <<>>

FactoryNext == BuildEntry \/ BuildAll \/ Register

FactorySpec == FactoryInit /\ [][FactoryNext]_vars

\* OutputManager.__init__, then the output manager: render calls, each
\* output raising or not in each call.
OutputInit ==
    /\ CollectorInitOf({DiscoveryRig}) /\ FactoryIdle /\ OutputIdle
    /\ outputs \in OutputLists

OutputNext == Render

OutputSpec == OutputInit /\ [][OutputNext]_vars

-----------------------------------------------------------------------------
(* Properties of TelemetryCollector.as_dict. *)

Indices == 1..Len(bundles)
Ok == {i \in Indices : trace[i].status = "ok"}
Failed == {i \in Indices : trace[i].status = "failed"}

MaxOf(S) == CHOOSE m \in S : \A x \in S : x <= m

\* The bundles whose pipeline output of the last cycle holds key k.
Emitters(k) == {i \in Ok : k \in DOMAIN trace[i].ranged}

\* a = b as rationals, by cross-multiplication.
SameNumber(a, b) == a.n * b.d = b.n * a.d

C2_FailedReadRetried ==
    [][cycles' = cycles + 1 =>
        \A i \in Indices :
            /\ trace'[i].status = "failed" =>
                  LET b == trace'[i].bid
                  IN  /\ (b \in DOMAIN last_read') = (b \in DOMAIN last_read)
                      /\ b \in DOMAIN last_read => last_read'[b] = last_read[b]
            /\ trace[i].status = "failed" => trace'[i].status \in {"ok", "failed"}
    ]_vars

\* C3 (as claimed): a bundle with interval n >= 1 whose last successful read
\* was at t is read in a cycle at t' iff t' - t >= n; a bundle without
\* interval, with an interval <= 0, or never read successfully, is read in
\* every cycle.
C3_IntervalGating ==
    [][cycles' = cycles + 1 =>
        \A i \in Indices :
            LET n == bundles[i].interval
                invoked == trace'[i].status \in {"ok", "failed"}
            IN  IF IsNone(n) \/ Get(n) <= 0 \/ IsNone(lastOk[i])
                THEN invoked
                ELSE invoked = (clock - Get(lastOk[i]) >= Get(n))
    ]_vars

\* C4: last-write-wins.  Every key of the returned mapping has the value
\* output by the last bundle, in declaration order, whose pipeline output held
\* the key in that cycle; a key output by some bundle is in the result, whatever
\* later bundles did (not due, read raised, value dropped by the range filter).
C4_LastWriteWins ==
    cycles > 0 =>
        /\ \A k \in DOMAIN telemetry_data :
              /\ Emitters(k) # {}
              /\ telemetry_data[k] = trace[MaxOf(Emitters(k))].ranged[k]
        /\ \A i \in Ok : DOMAIN trace[i].ranged \subseteq DOMAIN telemetry_data

\* The first bundle output x = 10, the second x = 20, the third read x = 30
\* and dropped it as out of range: the result holds the second's 20.
C4_Witness ==
    /\ Len(bundles) = 3
    /\ Ok = {1, 2, 3}
    /\ trace[1].ranged["x"] = IntV(10)
    /\ trace[2].ranged["x"] = IntV(20)
    /\ trace[3].smoothed["x"] = IntV(30) /\ "x" \notin DOMAIN trace[3].ranged
    /\ telemetry_data["x"] = IntV(20)

\* C5: the EMA recurrence.  For every (identity, key), the first smoothing
\* step outputs its input unchanged; every later step with window w, input v
\* and previous output prev outputs (2*v + (w-1)*prev) / (w+1), which is
\* alpha*v + (1-alpha)*prev with alpha = 2/(w+1); the accumulator holds the
\* output of the latest step; and what a cycle outputs for a smoothed key is
\* the output of one of these steps.
C5_EmaRecurrence ==
    /\ DOMAIN ema = DOMAIN emaLog
    /\ \A p \in DOMAIN emaLog :
          LET lg == emaLog[p]
          IN  /\ Len(lg) >= 1
              /\ lg[1].out = lg[1].v
              /\ \A j \in 2..Len(lg) :
                    /\ lg[j].w >= 2
                    /\ lg[j].out.d > 0
                    /\ lg[j].out.n * (lg[j].w + 1) * lg[j].v.d * lg[j - 1].out.d
                         = lg[j].out.d * (2 * lg[j].v.n * lg[j - 1].out.d
                                          + (lg[j].w - 1) * lg[j - 1].out.n * lg[j].v.d)
              /\ ema[p] = lg[Len(lg)].out
    /\ \A i \in Ok : \A k \in DOMAIN trace[i].calibrated :
          (/\ IsNumber(trace[i].calibrated[k])
           /\ k \in DOMAIN bundles[i].smoothing
           /\ bundles[i].smoothing[k] >= 2) =>
              /\ <<trace[i].uid, k>> \in DOMAIN emaLog
              /\ \E j \in 1..Len(emaLog[<<trace[i].uid, k>>]) :
                    LET step == emaLog[<<trace[i].uid, k>>][j]
                    IN  /\ step.v = trace[i].calibrated[k]
                        /\ step.w = bundles[i].smoothing[k]
                        /\ step.out = trace[i].smoothed[k]

\* Window 3, inputs 10, 20, 30: the outputs are 10, 15, 22.5.
C5_Witness ==
    /\ <<"DHT22Sensor:a", "k">> \in DOMAIN emaLog
    /\ LET lg == emaLog[<<"DHT22Sensor:a", "k">>]
       IN  /\ Len(lg) = 3
           /\ lg[1].w = 3 /\ lg[2].w = 3 /\ lg[3].w = 3
           /\ lg[1].v = IntV(10) /\ lg[2].v = IntV(20) /\ lg[3].v = IntV(30)
           /\ lg[1].out = IntV(10) /\ lg[2].out = IntV(15)
           /\ lg[3].out = [t |-> "num", n |-> 45, d |-> 2]
    /\ ema[<<"DHT22Sensor:a", "k">>] = [t |-> "num", n |-> 45, d |-> 2]

\* The value the range filter has to test for key k of bundle i: the mapped
\* value times slope plus offset where a calibration applies.
Calibrated(i, k) ==
    LET m == trace[i].mapped[k]
        c == bundles[i].calibration
    IN  IF k \in DOMAIN c /\ m.t \in {"num", "bool"}
        THEN LET sl == IF c[k].slope = <<>> THEN [n |-> 1, d |-> 1] ELSE c[k].slope[1]
                 of == IF c[k].offset = <<>> THEN [n |-> 0, d |-> 1] ELSE c[k].offset[1]
             IN  [n |-> m.n * sl.n * of.d + of.n * m.d * sl.d, d |-> m.d * sl.d * of.d]
        ELSE m

\* lo <= v <= hi for the bounds the range entry has.
Within(rng, v) ==
    /\ rng.min = <<>> \/ rng.min[1].n * v.d <= v.n * rng.min[1].d
    /\ rng.max = <<>> \/ v.n * rng.max[1].d <= rng.max[1].n * v.d

\* C6: calibration precedes ranging.  For a numeric reading of a key with a
\* range entry, the key is in the bundle's output iff the calibrated value
\* (the smoothed calibrated value where a window >= 2 applies) is within the
\* range; the raw value is never what is tested.  The stages run in the order
\* key mapping, calibration, smoothing, range filter: calibration reads the
\* mapped value, smoothing the calibrated one, the filter the smoothed one.
C6_CalibrationBeforeRange ==
    \A i \in Ok : \A k \in DOMAIN trace[i].mapped :
        /\ k \in DOMAIN trace[i].calibrated
        /\ k \in DOMAIN trace[i].smoothed
        /\ IF trace[i].mapped[k].t \in {"num", "bool"} /\ k \in DOMAIN bundles[i].calibration
           THEN SameNumber(trace[i].calibrated[k], Calibrated(i, k))
           ELSE trace[i].calibrated[k] = trace[i].mapped[k]
        /\ (\/ k \notin DOMAIN bundles[i].smoothing
            \/ bundles[i].smoothing[k] < 2
            \/ trace[i].calibrated[k].t = "str") =>
                trace[i].smoothed[k] = trace[i].calibrated[k]
        /\ (k \in DOMAIN bundles[i].ranges /\ trace[i].mapped[k].t = "num") =>
              /\ (k \in DOMAIN trace[i].ranged)
                    = Within(bundles[i].ranges[k], trace[i].smoothed[k])
              /\ (k \notin DOMAIN bundles[i].smoothing) =>
                    (k \in DOMAIN trace[i].ranged)
                        = Within(bundles[i].ranges[k], Calibrated(i, k))

\* Raw 40 with slope 1, offset -50 and range [-20, -5] is kept as -10, while
\* the uncalibrated raw 40 of another key with the same range is dropped.
C6_Witness ==
    /\ Ok = {1}
    /\ "k" \in DOMAIN trace[1].mapped /\ "u" \in DOMAIN trace[1].mapped
    /\ trace[1].mapped["k"] = IntV(40)
    /\ bundles[1].calibration["k"] = Cal(Some(IntV(1)), Some(IntV(-50)))
    /\ bundles[1].ranges["k"] = Range(-20, -5)
    /\ "k" \in DOMAIN telemetry_data /\ telemetry_data["k"] = IntV(-10)
    /\ trace[1].mapped["u"] = IntV(40)
    /\ bundles[1].ranges["u"] = Range(-20, -5)
    /\ "u" \notin DOMAIN telemetry_data

\* C7: the range filter is inclusive and never clamps.  A numeric value v
\* reaching the filter for a key with a range entry is in the bundle's output
\* iff min <= v <= max, and then with the value v itself.
C7_RangeInclusiveNoClamp ==
    \A i \in Ok : \A k \in DOMAIN trace[i].smoothed :
        (k \in DOMAIN bundles[i].ranges /\ trace[i].smoothed[k].t \in {"num", "bool"}) =>
            /\ (k \in DOMAIN trace[i].ranged)
                  = Within(bundles[i].ranges[k], trace[i].smoothed[k])
            /\ k \in DOMAIN trace[i].ranged => trace[i].ranged[k] = trace[i].smoothed[k]

\* A value equal to max (-5) is kept as it is.
C7_Witness ==
    /\ Ok = {1}
    /\ "k" \in DOMAIN bundles[1].ranges
    /\ bundles[1].ranges["k"].max = Some(IntV(-5))
    /\ "k" \in DOMAIN trace[1].smoothed /\ trace[1].smoothed["k"] = IntV(-5)
    /\ "k" \in DOMAIN trace[1].ranged /\ trace[1].ranged["k"] = IntV(-5)

\* C8 (as claimed): a boolean reading of a mapped key is emitted by the cycle
\* as the boolean it was read as, whatever calibration, smoothing or range
\* entry the key has, and no smoothing step ever takes a boolean as input.
C8_BooleansPassThrough ==
    /\ \A i \in Ok : \A k \in DOMAIN trace[i].mapped :
          trace[i].mapped[k].t = "bool" =>
              /\ k \in DOMAIN trace[i].ranged
              /\ trace[i].ranged[k] = trace[i].mapped[k]
    /\ \A p \in DOMAIN emaLog : \A j \in 1..Len(emaLog[p]) :
          emaLog[p][j].v.t # "bool"

-----------------------------------------------------------------------------
(* Properties of SensorFactory.build. *)

\* The last factory call was build (register leaves no entry).
Built == entry # EmptyDict

MetadataOf(e) == {e.calibration, e.ranges, e.smoothing}

\* The entry has the shape of a configuration entry: each of calibration,
\* ranges and smoothing is a mapping or is absent.
WellShaped(e) == \A meta \in MetadataOf(e) : meta.t \in {"none", "dict"}

\* The values of the entry's keys map.
CanonicalKeys(e) ==
    IF e.keys.t = "dict" THEN {e.keys.items[j][2] : j \in 1..Len(e.keys.items)} ELSE {}

\* The calibration, ranges and smoothing keys that are no value of the keys map.
StrayKeys(e) ==
    UNION {{meta.items[j][1] : j \in {x \in 1..Len(meta.items) :
                meta.items[x][1].t # "str" \/ meta.items[x][1].s \notin CanonicalKeys(e)}} :
           meta \in {m \in MetadataOf(e) : m.t = "dict"}}

C10_UnknownTypeAlwaysReported ==
    (/\ Built
     /\ "type" \in DOMAIN entry.fields
     /\ entry.fields["type"].t = "str"
     /\ Strip(entry.fields["type"].s) # <<>>
     /\ Lower(Strip(entry.fields["type"].s)) \notin DOMAIN registry) =>
        /\ result.kind = "UnknownSensorTypeError"
        /\ result.unknown_type = Lower(Strip(entry.fields["type"].s))
        /\ result.known_types = DOMAIN registry
        /\ result.sensor_id = Field(entry, "id")

-----------------------------------------------------------------------------
(* Properties of SensorFactory.build_all. *)

\* The last factory call was build_all.
BuiltAll == built.kind # "none"

\* The input is a list, or a dict whose "sensors" is a list.
ListShaped(cfg) ==
    \/ cfg.t = "list"
    \/ cfg.t = "dict" /\ cfg.has_sensors /\ cfg.sensors_t = "list"

IsBundle(r) == r.kind = "bundle"

\* What build does with each item of the input, the hardware being there or
\* not; build succeeds on no item that is no mapping.
BuildOfEach(cfg, hw) ==
    [j \in 1..Len(cfg.items) |->
        IF cfg.items[j].mapping THEN Build(registry, cfg.items[j].entry, hw)
        ELSE Crash("AttributeError", "sensor_config.get")]

\* C11 (as claimed): build_all of a list of entries returns, having called
\* build on every entry, the bundles of the entries on which build succeeded,
\* one each, in the order of the entries.
C11_OneBundlePerGoodEntry ==
    (BuiltAll /\ ListShaped(config)) =>
        /\ built.kind = "returned"
        /\ built.builds = Len(config.items)
        /\ \E hw \in BOOLEAN : built.bundles = SelectSeq(BuildOfEach(config, hw), IsBundle)

\* C12 (as claimed): build_all of a list (or of a dict whose "sensors" is a
\* list) returns, whatever the items of the list are.
C12_OnlyShapeErrorPropagates ==
    (BuiltAll /\ ListShaped(config)) => built.kind = "returned"

\* C13: build_all goes on to build the entries iff its input is a list or a
\* dict with a "sensors" key whose value is a list; for every other input it
\* raises InvalidSensorConfigError, having called build on no entry.
C13_TwoInputShapes ==
    BuiltAll =>
        IF ListShaped(config)
        THEN /\ built.kind # "InvalidSensorConfigError"
             /\ config.items # <<>> => built.builds >= 1
        ELSE /\ built.kind = "InvalidSensorConfigError"
             /\ built.builds = 0
             /\ built.bundles = <<>>
             /\ constructed = 0

\* A dict whose "sensors" is a tuple holding a well-formed entry is refused
\* with no build call made.
C13_Witness ==
    /\ BuiltAll
    /\ config = Config("dict", TRUE, "tuple", <<MappingItem(GoodDht22)>>)
    /\ built.kind = "InvalidSensorConfigError"
    /\ built.detail = "'sensors' must be a list"
    /\ built.builds = 0

\* A number of the configuration: an int or a float (a bool is an int to
\* isinstance, True being 1).
NumberTypes == {"int", "float", "bool"}
IntTypes == {"int", "bool"}

\* The data-model invariants of a bundle.
BundleInvariants(b) ==
    /\ b.keys # <<>>
    /\ b.interval.t = "none" \/ (b.interval.t \in IntTypes /\ b.interval.n >= 1)
    /\ \A j \in 1..Len(b.ranges) :
          LET limits == b.ranges[j][2]
          IN  /\ limits.t = "dict"
              /\ ~IsNone(limits.min) /\ ~IsNone(limits.max)
              /\ Get(limits.min).t \in NumberTypes
              /\ Get(limits.max).t \in NumberTypes
              /\ Get(limits.min).n < Get(limits.max).n
    /\ \A j \in 1..Len(b.smoothing) :
          b.smoothing[j][2].t \in IntTypes /\ b.smoothing[j][2].n >= 1
    /\ \A j \in 1..Len(b.calibration) :
          LET cal == b.calibration[j][2]
          IN  /\ cal.t = "dict"
              /\ ~IsNone(cal.offset) /\ ~IsNone(cal.slope)
              /\ Get(cal.offset).t \in NumberTypes
              /\ Get(cal.slope).t \in NumberTypes

Given(fields, f) ==
    /\ f \in DOMAIN fields
    /\ fields[f].t # "none"
    /\ ~(fields[f].t = "str" /\ fields[f].s = <<>>)
    /\ fields[f].t # "list"

\* The required-field contract of the driver class cls on the fields: its
\* all-of list if it declares one, else its any-of groups if it declares them.
Satisfies(cls, fields) ==
    LET desc == DriverClasses[cls]
    IN  IF ~IsNone(desc.required)
        THEN \A j \in 1..Len(Get(desc.required)) : Given(fields, Get(desc.required)[j])
        ELSE IF ~IsNone(desc.any_of)
        THEN \E j \in 1..Len(Get(desc.any_of)) :
                \A f \in Get(desc.any_of)[j] : Given(fields, f)
        ELSE TRUE

\* The entry's type, trimmed and lower-cased, is a registered type.
Resolves(e) ==
    /\ "type" \in DOMAIN e.fields
    /\ e.fields["type"].t = "str"
    /\ Lower(Strip(e.fields["type"].s)) \in DOMAIN registry

DriverOf(e) == registry[Lower(Strip(e.fields["type"].s))]

\* The fields of the entry that the driver class accepts.
AcceptedFields(cls, e) ==
    [f \in (DOMAIN e.fields) \cap DriverClasses[cls].accepted |-> e.fields[f]]

\* C15: build calls the driver's constructor only with accepted fields that
\* satisfy the driver's required-field contract; an entry of a registered
\* type whose accepted fields do not satisfy it makes build raise
\* InvalidSensorConfigError without calling the constructor.
C15_RequiredFieldContract ==
    Built =>
        /\ result.constructed = 1 =>
              /\ DOMAIN result.kwargs \subseteq DriverClasses[result.driver].accepted
              /\ Satisfies(result.driver, result.kwargs)
        /\ (Resolves(entry) /\ WellShaped(entry)
              /\ ~Satisfies(DriverOf(entry), AcceptedFields(DriverOf(entry), entry))) =>
              /\ result.kind = "InvalidSensorConfigError"
              /\ result.constructed = 0
              /\ constructed = 0

\* A DHT22 entry with valid metadata whose id is the empty string is refused
\* at the required-field check.
C15_Witness ==
    /\ Built
    /\ Resolves(entry)
    /\ DriverOf(entry) = "DHT22Sensor"
    /\ Field(entry, "id") = StrF(<<>>)
    /\ Field(entry, "pin") = IntF(4)
    /\ result.kind = "InvalidSensorConfigError"
    /\ result.detail = "required missing"
    /\ constructed = 0

\* The required-field specification of the driver class (its all-of list, or
\* one of its any-of groups) names a field its accepted set lacks.
Misdeclared(cls) ==
    LET desc == DriverClasses[cls]
        named == IF ~IsNone(desc.required)
                 THEN {Get(desc.required)[j] : j \in 1..Len(Get(desc.required))}
                 ELSE IF ~IsNone(desc.any_of)
                 THEN UNION {Get(desc.any_of)[j] : j \in 1..Len(Get(desc.any_of))}
                 ELSE {}
    IN  named \ desc.accepted # {}

\* C16 (as claimed): build of an entry whose type is registered to a driver
\* with such a required-field specification fails, whatever the entry is,
\* and does not construct the driver.
C16_MisdeclaredDriverFailsFast ==
    (Built /\ Resolves(entry) /\ Misdeclared(DriverOf(entry))) =>
        /\ result.kind \notin {"bundle", "none"}
        /\ result.constructed = 0
        /\ constructed = 0

-----------------------------------------------------------------------------
(* Properties of SensorFactory.register. *)

T_water_flow == <<"w", "a", "t", "e", "r", "_", "f", "l", "o", "w">>

\* C17: a register call with a non-blank str name and a BaseSensor subclass
\* sets the registry entry of the trimmed, lower-cased name to that class and
\* leaves every other entry as it was; a rejected register call, and every
\* build and build_all call, leave the registry as it was; and a build that
\* constructs a driver constructs the class the registry holds under the
\* entry's trimmed, lower-cased type.  Hence build resolves the class of the
\* most recent accepted register call for that name.
C17_RegisterOverrides ==
    [][/\ call' # NoCall =>
            LET name == call'.sensor_type
                cls == call'.driver_class
            IN  IF name.t = "str" /\ Strip(name.s) # <<>> /\ DriverClasses[cls].sensor
                THEN /\ result'.kind = "registered"
                     /\ DOMAIN registry' = DOMAIN registry \cup {Lower(Strip(name.s))}
                     /\ registry'[Lower(Strip(name.s))] = cls
                     /\ \A x \in DOMAIN registry \ {Lower(Strip(name.s))} :
                           registry'[x] = registry[x]
                ELSE /\ result'.kind = "InvalidSensorConfigError"
                     /\ registry' = registry
       /\ call' = NoCall => registry' = registry
       /\ (entry' # EmptyDict /\ result'.constructed = 1) =>
            /\ Lower(Strip(entry'.fields["type"].s)) \in DOMAIN registry'
            /\ result'.driver = registry'[Lower(Strip(entry'.fields["type"].s))]
    ]_vars

\* After a register call that overrode water_flow, build of an entry whose
\* type is " Water_Flow " has constructed the overriding class.
C17_Witness ==
    /\ Built
    /\ Field(entry, "type") = StrF(T_Water_Flow_padded)
    /\ T_water_flow \in DOMAIN registry
    /\ registry[T_water_flow] = "AnyOfProbe"
    /\ result.kind = "bundle"
    /\ result.driver = "AnyOfProbe"

-----------------------------------------------------------------------------
(* Properties of the collector's stores. *)

\* The accumulators of the identity b are the same before and after the step.
EmaUnchangedFor(b) ==
    \A p \in (DOMAIN ema) \cup (DOMAIN ema') :
        p[1] = b => (p \in DOMAIN ema /\ p \in DOMAIN ema' /\ ema'[p] = ema[p])

\* The last-read entry of the identity b is the same before and after the step.
LastReadUnchangedFor(b) ==
    /\ (b \in DOMAIN last_read') = (b \in DOMAIN last_read)
    /\ b \in DOMAIN last_read => last_read'[b] = last_read[b]

\* C18 (as claimed): a cycle in which a bundle is not due leaves the
\* last-read entry of that bundle's identity and every accumulator of that
\* identity as they were.
C18_NotDueNoMutation ==
    [][cycles' = cycles + 1 =>
        \A i \in Indices :
            trace'[i].status = "notdue" =>
                /\ LastReadUnchangedFor(trace'[i].bid)
                /\ EmaUnchangedFor(trace'[i].bid)
    ]_vars

\* A read made under the identity b succeeded in the cycle just made.
SucceededAs(b) == \E i \in Indices : trace'[i].status = "ok" /\ trace'[i].bid = b

\* C19: the last-read store is empty at first; a cycle sets the entry of
\* every identity under which a read succeeded in it to the one timestamp
\* the cycle sampled, and leaves every other identity as it was (with or
\* without an entry); nothing but a cycle changes the store.  So an identity
\* has an entry iff a read under it has succeeded, and the entry is the
\* timestamp of the last cycle in which one did.
C19_LastReadIsLastSuccess ==
    /\ last_read = EmptyDict
    /\ [][IF cycles' = cycles + 1
          THEN /\ now' = clock
               /\ \A b \in (DOMAIN last_read) \cup (DOMAIN last_read')
                           \cup {trace'[i].bid : i \in Indices} :
                      IF SucceededAs(b)
                      THEN b \in DOMAIN last_read' /\ last_read'[b] = now'
                      ELSE LastReadUnchangedFor(b)
          ELSE last_read' = last_read
         ]_vars

\* After a cycle at time 1 in which the first bundle's read raised, the
\* second was not due and the third succeeded: the first two keep the entry
\* of their success at time 0, the third has the entry 1.
C19_Witness ==
    /\ Len(bundles) = 3
    /\ now = 1
    /\ trace[1].status = "failed" /\ trace[2].status = "notdue" /\ trace[3].status = "ok"
    /\ \A i \in Indices : trace[i].bid \in DOMAIN last_read
    /\ last_read[trace[1].bid] = 0
    /\ last_read[trace[2].bid] = 0
    /\ last_read[trace[3].bid] = 1

\* The canonical key k of bundle i has no smoothing entry or a window of 1.
Unsmoothed(i, k) ==
    k \notin DOMAIN bundles[i].smoothing \/ bundles[i].smoothing[k] = 1

\* The identities bundle i has now or had in the last cycle.
IdentitiesOf(i) == {BundleId(i, drivers[i]), trace[i].bid, trace[i].uid}

\* A valid DHT22 entry whose smoothing window is 1.
WindowOneEntry ==
    Entry([type |-> StrF(T_dht22), id |-> StrF(<<"a">>), pin |-> IntF(4)],
          GoodKeys, GoodCalibration, Absent, Dict(<< <<StrF(<<"k">>), IntF(1)>> >>))

\* C20: build returns a bundle for an entry whose smoothing window is 1, the
\* window kept; and in the collector, for a key with a window of 1 or with no
\* smoothing entry, the smoothing stage of every cycle outputs the calibrated
\* value as it is, what the cycle emits for the key is that value, and no
\* accumulator exists for the key under an identity of the bundle.
C20_WindowOneIsNoOp ==
    /\ Build(DefaultRegistry, WindowOneEntry, TRUE).kind = "bundle"
    /\ Build(DefaultRegistry, WindowOneEntry, TRUE).smoothing
          = << <<StrF(<<"k">>), IntF(1)>> >>
    /\ \A i \in Ok : \A k \in DOMAIN trace[i].calibrated :
          Unsmoothed(i, k) =>
              /\ trace[i].smoothed[k] = trace[i].calibrated[k]
              /\ k \in DOMAIN trace[i].ranged =>
                    trace[i].ranged[k] = trace[i].calibrated[k]
    /\ \A p \in DOMAIN ema : \A i \in Indices :
          p[1] \in IdentitiesOf(i) => ~Unsmoothed(i, p[2])

-----------------------------------------------------------------------------
(* Properties of the key mapping. *)

\* The raw keys the read of bundle i returned in the last cycle.
RawKeys(i) == {trace[i].raw[j][1] : j \in 1..Len(trace[i].raw)}

\* The raw keys of bundle i's last read that its key map does not hold.
Unmapped(i) == RawKeys(i) \ DOMAIN bundles[i].keys

\* The canonical keys of the raw keys bundle i's last read returned.
CanonicalOf(i) == {bundles[i].keys[r] : r \in RawKeys(i) \cap DOMAIN bundles[i].keys}

\* C21: after every cycle, as_dict has returned and every key of the mapping
\* it returned is the canonical key, in the key map of a bundle whose read
\* succeeded in the cycle, of a raw key that read returned; the mapped stage
\* of such a bundle holds exactly those canonical keys, each with the value
\* of a raw key mapped to it, so an unmapped raw key contributes no key and
\* no value, under any name.
C21_OnlyCanonicalKeys ==
    /\ ~raised
    /\ \A k \in DOMAIN telemetry_data : \E i \in Ok : k \in CanonicalOf(i)
    /\ \A i \in Ok :
          /\ DOMAIN trace[i].mapped = CanonicalOf(i)
          /\ \A k \in DOMAIN trace[i].mapped :
                \E j \in 1..Len(trace[i].raw) :
                    /\ trace[i].raw[j][1] \in DOMAIN bundles[i].keys
                    /\ bundles[i].keys[trace[i].raw[j][1]] = k
                    /\ trace[i].mapped[k] = trace[i].raw[j][2]

\* The DHT22 returned temperature and an unmapped humidity: the cycle
\* returned the temperature under its canonical key k and nothing else from
\* that bundle.
C21_Witness ==
    /\ Len(bundles) = 2
    /\ trace[1].status = "ok"
    /\ trace[2].status = "ok"
    /\ Unmapped(1) = {"humidity"}
    /\ CanonicalOf(1) = {"k"}
    /\ ~raised
    /\ telemetry_data["k"] = IntV(10)
    /\ DOMAIN telemetry_data \subseteq {"k", "lvl"}

-----------------------------------------------------------------------------
(* Properties of the constructor arguments. *)

MetadataNames == {"type", "keys", "calibration", "ranges", "smoothing", "interval"}

\* The accepted fields of the entry with a coercer whose cast raises.
Uncastable(cls, e) ==
    {f \in (DOMAIN e.fields) \cap DriverClasses[cls].accepted
            \cap DriverClasses[cls].coercers : IsNone(IntCast(e.fields[f]))}

\* C22: a constructor call of build gets exactly the fields of the entry
\* that the driver class accepts, each with the entry's value, cast by the
\* coercer the class declares for it, and so none of type, keys,
\* calibration, ranges, smoothing, interval; an entry of a registered type
\* with a field whose cast raises makes build raise InvalidSensorConfigError
\* without a constructor call; and build reports a required field as missing
\* only when every cast has succeeded.
C22_OnlyAcceptedFieldsReachDriver ==
    Built =>
        /\ result.constructed = 1 =>
              LET desc == DriverClasses[result.driver]
              IN  /\ DOMAIN result.kwargs = (DOMAIN entry.fields) \cap desc.accepted
                  /\ (DOMAIN result.kwargs) \cap MetadataNames = {}
                  /\ \A k \in DOMAIN result.kwargs :
                        result.kwargs[k] = IF k \in desc.coercers
                                           THEN Get(IntCast(entry.fields[k]))
                                           ELSE entry.fields[k]
        /\ (Resolves(entry) /\ WellShaped(entry)
              /\ Uncastable(DriverOf(entry), entry) # {}) =>
              /\ result.kind = "InvalidSensorConfigError"
              /\ result.detail \notin {"required missing", "required any-of missing",
                                       "constructor"}
              /\ result.constructed = 0
              /\ constructed = 0

\* A DHT22 entry with the pin "17" and an undeclared field kind: the
\* constructor got the id and the pin 17, nothing else.
C22_Witness ==
    /\ Built
    /\ "kind" \in DOMAIN entry.fields
    /\ "interval" \in DOMAIN entry.fields
    /\ entry.fields["pin"] = StrF(<<"1", "7">>)
    /\ result.kind = "bundle"
    /\ result.driver = "DHT22Sensor"
    /\ constructed = 1
    /\ result.kwargs = [id |-> StrF(<<"a">>), pin |-> IntF(17)]

-----------------------------------------------------------------------------
(* Properties of the collector's frame. *)

\* C23: no step changes the collector's bundle list: its length, its order,
\* and each bundle's key map, calibration map, range map, smoothing map and
\* interval stay as constructed.  The collector writes nothing to a driver
\* either: a driver's attributes change only in a cycle that called its
\* read(), and then only to what that read() left.  What a cycle changes of
\* the collector is its last-read store and its EMA store.
C23_BundlesImmutable ==
    [][/\ bundles' = bundles
       /\ \A i \in Indices :
             /\ drivers'[i] \in {drivers[i]}
                   \cup {o.drv : o \in ReadOutcomes(drivers[i], feed[i])}
             /\ trace'[i].status \notin {"ok", "failed"} => drivers'[i] = drivers[i]]_vars

\* Three cycles over the water level and DHT22 collector have filled both
\* stores; the bundle list is the one the collector was constructed with.
C23_Witness ==
    /\ cycles = MaxCycles
    /\ bundles = SmoothingRig.bundles
    /\ \A i \in Indices : trace[i].status = "ok"
    /\ DOMAIN last_read = {"DHT22Sensor:a", "I2CWaterLevelSensor:w"}
    /\ DOMAIN ema = {<<"DHT22Sensor:a", "k">>, <<"I2CWaterLevelSensor:w", "lvl">>}

\* C24: a call of as_dict has an outcome in every state, and after every
\* call it has returned, having reached every bundle of the list once, the
\* i-th bundle as the i-th; each bundle was skipped as not due, or its
\* read() was called once and raised or returned.
C24_CycleRunsToCompletion ==
    /\ CycleOutcomes # {}
    /\ cycles > 0 =>
          /\ ~raised
          /\ \A i \in Indices :
                /\ trace[i].status \in {"notdue", "failed", "ok"}
                /\ trace[i].seq = i

\* A cycle whose first bundle's read raised and whose second bundle was not
\* due went on to read the third.
C24_Witness ==
    /\ Len(bundles) = 3
    /\ cycles > 1
    /\ ~raised
    /\ trace[1].status = "failed" /\ trace[1].seq = 1
    /\ trace[2].status = "notdue" /\ trace[2].seq = 2
    /\ trace[3].status = "ok" /\ trace[3].seq = 3
    /\ "x" \in DOMAIN telemetry_data

-----------------------------------------------------------------------------
(* Properties of OutputManager.render. *)

\* The outputs in a list.
Members(list) == {list[j] : j \in 1..Len(list)}

\* The calls of the last render call made to the output o.
CallsTo(o) == {j \in 1..Len(calls) : calls[j].output = o}

C26_FanOutComplete ==
    renders > 0 =>
        \A o \in Members(before) :
            (\A j \in CallsTo(o) : ~calls[j].raised) =>
                /\ Cardinality(CallsTo(o)) = 1
                /\ \A j \in CallsTo(o) : calls[j].snapshot = calls[1].snapshot

-----------------------------------------------------------------------------
(* Properties of the bundle identity. *)

\* C27 (as claimed): in every cycle, a bundle with an interval n >= 1 that
\* has never been read successfully, or whose own last successful read is n
\* or more ago, has its read() called, whatever the other bundles did; and a
\* cycle in which a bundle is not read successfully leaves every accumulator
\* of that bundle's identity as it was, whatever the other bundles read.
C27_BundleStateIsolated ==
    [][cycles' = cycles + 1 =>
        \A j \in Indices :
            LET n == bundles[j].interval
            IN  /\ (/\ ~IsNone(n)
                    /\ Get(n) >= 1
                    /\ (IsNone(lastOk[j]) \/ clock - Get(lastOk[j]) >= Get(n))) =>
                       trace'[j].status \in {"ok", "failed"}
                /\ trace'[j].status # "ok" => EmaUnchangedFor(trace'[j].bid)
    ]_vars

\* C28 (as claimed): a cycle leaves the identity of every bundle as it was;
\* the identity the smoothing step of a successful read uses is the one the
\* due-check and the last-read update of that cycle use; and a bundle with an
\* interval n >= 1 whose last successful read is less than n ago is not read.
C28_IdentityStable ==
    [][cycles' = cycles + 1 =>
        \A i \in Indices :
            LET n == bundles[i].interval
            IN  /\ BundleId(i, drivers'[i]) = BundleId(i, drivers[i])
                /\ trace'[i].status = "ok" => trace'[i].uid = trace'[i].bid
                /\ (/\ ~IsNone(n)
                    /\ Get(n) >= 1
                    /\ ~IsNone(lastOk[i])
                    /\ clock - Get(lastOk[i]) < Get(n)) =>
                       trace'[i].status = "notdue"
    ]_vars

-----------------------------------------------------------------------------
(* Properties of the accumulator and of the last-read time. *)

\* Bundle i is the only bundle read successfully under its identity in the
\* cycle just made.
OnlyReader(i) ==
    \A j \in Indices \ {i} :
        trace'[j].status = "ok" => trace'[j].uid # trace'[i].uid

\* C29: a cycle in which the read of a bundle returned sets, for each key
\* with a numeric calibrated value v and a window w >= 2, the accumulator of
\* the bundle's identity and the key to v if there was none, else to the EMA
\* step of w, v and the accumulator before the cycle; that value is the
\* output of the smoothing stage.  This is so whether or not the range filter
\* then keeps the key.  (Stated for a bundle that is the only one read under
\* its identity in the cycle.)
C29_EmaAdvancesBeforeRanges ==
    [][cycles' = cycles + 1 =>
        \A i \in Indices : trace'[i].status = "ok" =>
            \A k \in DOMAIN trace'[i].calibrated :
                LET v == trace'[i].calibrated[k]
                    p == <<trace'[i].uid, k>>
                IN  (/\ IsNumber(v)
                     /\ k \in DOMAIN bundles[i].smoothing
                     /\ bundles[i].smoothing[k] >= 2
                     /\ OnlyReader(i)) =>
                        /\ p \in DOMAIN ema'
                        /\ ema'[p] = IF p \in DOMAIN ema
                                     THEN EmaStep(bundles[i].smoothing[k], v, ema[p])
                                     ELSE v
                        /\ trace'[i].smoothed[k] = ema'[p]
    ]_vars

\* The water level read 90, calibrated to 80 and outside [0, 50], in the
\* first cycle, and 30, calibrated to 20, in the second: the second cycle
\* output 2/3 * 20 + 1/3 * 80 = 40 for it.
C29_Witness ==
    /\ cycles = 2
    /\ Len(bundles) = 2
    /\ bundles = SmoothingRig.bundles
    /\ trace[2].status = "ok"
    /\ <<"I2CWaterLevelSensor:w", "lvl">> \in DOMAIN emaLog
    /\ "lvl" \in DOMAIN telemetry_data
    /\ bundles[2].ranges["lvl"] = Range(0, 50)
    /\ bundles[2].smoothing["lvl"] = 2
    /\ Len(emaLog[<<"I2CWaterLevelSensor:w", "lvl">>]) = 2
    /\ emaLog[<<"I2CWaterLevelSensor:w", "lvl">>][1].v = IntV(80)
    /\ trace[2].calibrated["lvl"] = IntV(20)
    /\ telemetry_data["lvl"] = IntV(40)
    /\ ema[<<"I2CWaterLevelSensor:w", "lvl">>] = IntV(40)

\* C30 (as claimed): a cycle in which a bundle's read() returned sets the
\* last-read time of the bundle's identity to the cycle's timestamp, also
\* when the pipeline emitted nothing for the bundle; a bundle with an
\* interval n >= 1 whose read() returned in the last cycle, less than n ago,
\* is not read; and a bundle whose read() raised in the last cycle has its
\* read() called in this one.
C30_SuccessIsReadReturning ==
    [][cycles' = cycles + 1 =>
        \A i \in Indices :
            LET n == bundles[i].interval
            IN  /\ trace'[i].status = "ok" =>
                      /\ trace'[i].bid \in DOMAIN last_read'
                      /\ last_read'[trace'[i].bid] = clock
                /\ (/\ trace[i].status = "ok"
                    /\ ~IsNone(n)
                    /\ Get(n) >= 1
                    /\ clock - now < Get(n)) => trace'[i].status = "notdue"
                /\ trace[i].status = "failed" => trace'[i].status \in {"ok", "failed"}
    ]_vars

====
